---- MODULE Spec2Model ----
(***************************************************************************)
(* The technomancy game engine: the event-sourced game state (GameImplV1   *)
(* in src/src/lib.rs over the types of src/core/src/lib.rs), its atom log  *)
(* (apply_atoms) and its step function (run).                              *)
(***************************************************************************)
EXTENDS Integers, Sequences, FiniteSets, TLC

VARIABLES game, last, twin, server

vars == <<game, last, twin, server>>

(***************************************************************************)
(* Bounds of the model.                                                    *)
(***************************************************************************)
\* longest history a game is driven to
MaxHistory == 7
\* number of states of the abstract generator (the real one has 2^256)
RandMod == 64
\* number of apply_atoms calls made directly through the public API
MaxApiCalls == 1

(***************************************************************************)
(* Identifiers.  PlayerId, CardId and ObjectId are opaque uuids in the     *)
(* code; only equality is used on them.                                    *)
(***************************************************************************)
NoPlayer == 0
PlayerIds == {1, 2}
\* an id that is no player of any game
Stranger == Cardinality(PlayerIds) + 1
NoCard == "none"
\* an object id no generator output equals
MissingObject == 0 - 1

\* the seeds games are built from
Seeds == {0, 1}

\* Xoshiro256StarStar: one step of the generator.
NextRand(r) == (r + 1) % RandMod

\* rand's gen_index: an index below ubound, taken from the generator's output.
GenIndex(r, ubound) == r % ubound

\* get_seeded_uuid: the 16 bytes drawn are the generator's output.
SeededUuid(r) == r

(***************************************************************************)
(* Sequence helpers (Vec operations used by the code).                     *)
(***************************************************************************)
RemoveAt(s, i) == [k \in 1..(Len(s) - 1) |-> IF k < i THEN s[k] ELSE s[k + 1]]

Swap(s, i, j) == [s EXCEPT ![i] = s[j], ![j] = s[i]]

\* Iterator::position: the least 1-based index satisfying the test, 0 if none.
PositionOf(s, id) ==
    IF \E k \in 1..Len(s) : s[k].id = id
    THEN CHOOSE k \in 1..Len(s) : s[k].id = id /\ \A j \in 1..(k - 1) : s[j].id # id
    ELSE 0

\* The element of a set of one element.  The({e : x \in {v}}) is e with x
\* bound to v, a let binding whose value is computed once.
The(set) == CHOOSE r \in set : TRUE

RECURSIVE Flatten(_)
Flatten(ss) == IF ss = <<>> THEN <<>> ELSE Head(ss) \o Flatten(Tail(ss))

SeqFilterOut(s, S) == SelectSeq(s, LAMBDA x : x \notin S)

Min(a, b) == IF a < b THEN a ELSE b

Range(s) == {s[k] : k \in 1..Len(s)}

Perms(S) == {s \in [1..Cardinality(S) -> S] : Range(s) = S}

(***************************************************************************)
(* Zones and objects (src/core/src/lib.rs).                                *)
(***************************************************************************)
Hand(p) == <<"Hand", p>>
Library(p) == <<"Library", p>>
Discard(p) == <<"Discard", p>>
Battlefield == <<"Battlefield", NoPlayer>>
Stack == <<"Stack", NoPlayer>>

\* A variant of ZonesOf that creates no discard zones.
ZonesOfNoDiscard(players) ==
    UNION {{Hand(p), Library(p)} : p \in players} \cup {Battlefield, Stack}

\* The zone ids new_game_state_with creates for a player map.
ZonesOf(players) ==
    UNION {{Hand(p), Library(p), Discard(p)} : p \in players} \cup {Battlefield, Stack}

\* GameObject::from_card: the object id, then the library card id, are drawn
\* from the generator; no controller, no choices.
FromCard(r, c) ==
    [obj |-> [id |-> SeededUuid(r),
              library_card_id |-> SeededUuid(NextRand(r)),
              underlying_card |-> c,
              controller |-> NoPlayer,
              choices |-> <<>>],
     rand |-> NextRand(NextRand(r))]

TargetPlayer(p) == <<"Player", p>>
TargetObject(o) == <<"Object", o>>

(***************************************************************************)
(* Game stage.                                                             *)
(***************************************************************************)
KeepHandStage(keeping) == [tag |-> "KeepHand", players_keeping |-> keeping]
GameRunning == [tag |-> "GameRunning", players_keeping |-> {}]

(***************************************************************************)
(* Atoms (GameAtom).                                                       *)
(***************************************************************************)
StartGame == [tag |-> "StartGame"]
KeepHand(p) == [tag |-> "KeepHand", player |-> p]
ShuffleHandIntoLibrary(p) == [tag |-> "ShuffleHandIntoLibrary", player |-> p]
DrawCardsAtom(p, n) == [tag |-> "DrawCards", player |-> p, count |-> n]
DealDamageAtom(n, src, tgt) ==
    [tag |-> "DealDamage", amount |-> n, source |-> src, target |-> tgt]
PassPriority(p) == [tag |-> "PassPriority", player |-> p]
PlayerPlayCard(p, from, o, ch) ==
    [tag |-> "PlayerPlayCard", player |-> p, from |-> from, object |-> o, choices |-> ch]
ResetPriority == [tag |-> "ResetPriority"]
PopStack == [tag |-> "PopStack"]

(***************************************************************************)
(* apply_atoms, one atom: the successor of (state, generator) and the      *)
(* error, "none" when the atom applied.  "panic" stands for todo!(),       *)
(* unreachable!() and failed indexing.                                     *)
(***************************************************************************)
Step(st, r, e) == [state |-> st, rand |-> r, err |-> e]

\* SliceRandom::shuffle: for i in (1..len).rev() { swap(i, gen_index(i + 1)) }
RECURSIVE ShuffleFrom(_, _, _)
ShuffleFrom(s, r, i) ==
    IF i < 2 THEN [seq |-> s, rand |-> r]
    ELSE ShuffleFrom(Swap(s, i, GenIndex(r, i) + 1), NextRand(r), i - 1)

Shuffle(s, r) == ShuffleFrom(s, r, Len(s))

\* A variant of AtomStartGame that accepts a game that is already running.
AtomStartGameAgain(st, r) ==
    Step([st EXCEPT !.game_stage = GameRunning], r, "none")

AtomStartGame(st, r) ==
    IF st.game_stage.tag = "GameRunning"
    THEN Step(st, r, "GameAlreadyRunning")
    ELSE Step([st EXCEPT !.game_stage = GameRunning], r, "none")

AtomKeepHand(st, r, p) ==
    IF st.game_stage.tag = "KeepHand"
    THEN Step([st EXCEPT !.game_stage.players_keeping = @ \cup {p}], r, "none")
    ELSE Step(st, r, "KeepHandDuringGame")

\* A variant of AtomShuffleHandIntoLibrary that shuffles the library and
\* leaves the hand where it is.
AtomShuffleLibraryOnly(st, r, p) ==
    IF Hand(p) \notin DOMAIN st.zones
    THEN Step(st, r, "panic")
    ELSE LET sh == Shuffle(st.zones[Library(p)], r)
         IN  Step([st EXCEPT !.zones[Library(p)] = sh.seq], sh.rand, "none")

AtomShuffleHandIntoLibrary(st, r, p) ==
    IF Hand(p) \notin DOMAIN st.zones
    THEN Step(st, r, "panic")
    ELSE LET sh == Shuffle(st.zones[Library(p)] \o st.zones[Hand(p)], r)
         IN  Step([st EXCEPT !.zones[Hand(p)] = <<>>,
                             !.zones[Library(p)] = sh.seq],
                  sh.rand, "none")

\* A variant of AtomDrawCards that leaves the drawn objects in the library.
AtomDrawCardsCopy(st, r, p, count) ==
    IF Hand(p) \notin DOMAIN st.zones
    THEN Step(st, r, "panic")
    ELSE LET lib == st.zones[Library(p)]
             new_count == IF Len(lib) > count THEN Len(lib) - count ELSE 0
         IN  Step([st EXCEPT !.zones[Hand(p)] = @ \o SubSeq(lib, new_count + 1, Len(lib))],
                  r, "none")

\* A variant of AtomDrawCards that draws from the other end of the library.
AtomDrawCardsBottom(st, r, p, count) ==
    IF Hand(p) \notin DOMAIN st.zones
    THEN Step(st, r, "panic")
    ELSE LET lib == st.zones[Library(p)]
             new_count == IF Len(lib) > count THEN Len(lib) - count ELSE 0
         IN  Step([st EXCEPT !.zones[Hand(p)] = @ \o SubSeq(lib, 1, Len(lib) - new_count),
                             !.zones[Library(p)] = SubSeq(lib, Len(lib) - new_count + 1, Len(lib))],
                  r, "none")

AtomDrawCards(st, r, p, count) ==
    IF Hand(p) \notin DOMAIN st.zones
    THEN Step(st, r, "panic")
    ELSE LET lib == st.zones[Library(p)]
             new_count == IF Len(lib) > count THEN Len(lib) - count ELSE 0
         IN  Step([st EXCEPT !.zones[Hand(p)] = @ \o SubSeq(lib, new_count + 1, Len(lib)),
                             !.zones[Library(p)] = SubSeq(lib, 1, new_count)],
                  r, "none")

\* A variant of AtomPassPriority that moves the passing player to the end.
AtomPassPriorityRotate(st, r, p) ==
    IF st.unpassed_players # <<>> /\ Head(st.unpassed_players) = p
    THEN Step([st EXCEPT !.unpassed_players = Append(Tail(@), p)], r, "none")
    ELSE Step(st, r, "InvalidPlayerPassing")

\* A variant of AtomPassPriority that removes the last unpassed player.
AtomPassPriorityPop(st, r, p) ==
    IF st.unpassed_players # <<>> /\ Head(st.unpassed_players) = p
    THEN Step([st EXCEPT !.unpassed_players = SubSeq(@, 1, Len(@) - 1)], r, "none")
    ELSE Step(st, r, "InvalidPlayerPassing")

AtomPassPriority(st, r, p) ==
    IF st.unpassed_players # <<>> /\ Head(st.unpassed_players) = p
    THEN Step([st EXCEPT !.unpassed_players = Tail(@)], r, "none")
    ELSE Step(st, r, "InvalidPlayerPassing")

\* A variant of AtomPlayerPlayCard that does not set the controller.
AtomPlayerPlayCardNoController(st, r, p, from, object, choices) ==
    IF from \notin DOMAIN st.zones \/ from = Stack
    THEN Step(st, r, "panic")
    ELSE LET obj_idx == PositionOf(st.zones[from], object)
         IN  IF obj_idx # 0
             THEN LET obj == [st.zones[from][obj_idx] EXCEPT !.choices = choices]
                  IN  Step([st EXCEPT !.zones[from] = RemoveAt(@, obj_idx),
                                      !.zones[Stack] = Append(@, obj)],
                           r, "none")
             ELSE Step(st, r, "ObjectNotFoundInZone")

AtomPlayerPlayCard(st, r, p, from, object, choices) ==
    IF from \notin DOMAIN st.zones \/ from = Stack
    THEN Step(st, r, "panic")
    ELSE LET obj_idx == PositionOf(st.zones[from], object)
         IN  IF obj_idx # 0
             THEN LET obj == [st.zones[from][obj_idx] EXCEPT !.choices = choices,
                                                             !.controller = p]
                  IN  Step([st EXCEPT !.zones[from] = RemoveAt(@, obj_idx),
                                      !.zones[Stack] = Append(@, obj)],
                           r, "none")
             ELSE Step(st, r, "ObjectNotFoundInZone")

\* A variant of AtomResetPriority that also moves the turn to the next player.
AtomResetPriorityNextTurn(st, r) ==
    LET order == IF st.active_player_order = <<>> THEN <<>>
                 ELSE Append(Tail(st.active_player_order), Head(st.active_player_order))
    IN  Step([st EXCEPT !.active_player_order = order, !.unpassed_players = order],
             r, "none")

AtomResetPriority(st, r) ==
    Step([st EXCEPT !.unpassed_players = st.active_player_order], r, "none")

\* A variant of AtomPopStack that removes the oldest object of the stack.
AtomPopStackOldest(st, r) ==
    LET s == st.zones[Stack]
    IN  Step([st EXCEPT !.zones[Stack] = IF s = <<>> THEN <<>> ELSE Tail(s)], r, "none")

AtomPopStack(st, r) ==
    LET s == st.zones[Stack]
    IN  Step([st EXCEPT !.zones[Stack] = IF s = <<>> THEN <<>> ELSE SubSeq(s, 1, Len(s) - 1)],
             r, "none")

ApplyAtom(st, r, atom) ==
    CASE atom.tag = "StartGame" -> AtomStartGame(st, r)
      [] atom.tag = "DealDamage" -> Step(st, r, "panic")
      [] atom.tag = "KeepHand" -> AtomKeepHand(st, r, atom.player)
      [] atom.tag = "ShuffleHandIntoLibrary" -> AtomShuffleHandIntoLibrary(st, r, atom.player)
      [] atom.tag = "DrawCards" -> AtomDrawCards(st, r, atom.player, atom.count)
      [] atom.tag = "PassPriority" -> AtomPassPriority(st, r, atom.player)
      [] atom.tag = "PlayerPlayCard" ->
            AtomPlayerPlayCard(st, r, atom.player, atom.from, atom.object, atom.choices)
      [] atom.tag = "ResetPriority" -> AtomResetPriority(st, r)
      [] atom.tag = "PopStack" -> AtomPopStack(st, r)

\* The fold of apply_atoms' for loop: stops at the first atom that fails.
RECURSIVE FoldAtoms(_, _, _)
FoldAtoms(st, r, atoms) ==
    IF atoms = <<>> THEN Step(st, r, "none")
    ELSE LET one == ApplyAtom(st, r, Head(atoms))
         IN  IF one.err # "none" THEN one
             ELSE FoldAtoms(one.state, one.rand, Tail(atoms))

LatestGamestate(g) == g.game_states[Len(g.game_states)]

\* A variant of RecordBatch that records the index of the state to come.
RecordBatchNextIndex(g, atoms) == Append(g.history, <<Len(g.game_states), atoms>>)

\* Where apply_atoms records the batch.
RecordBatch(g, atoms) == Append(g.history, <<Len(g.game_states) - 1, atoms>>)

\* A variant of ApplyAtoms that pushes the state reached when an atom fails.
ApplyAtomsPartialCommit(g, atoms) ==
    LET recorded == RecordBatch(g, atoms)
        f == FoldAtoms(LatestGamestate(g), g.rand, atoms)
    IN  [game |-> [g EXCEPT !.history = recorded,
                            !.rand = f.rand,
                            !.game_states = Append(@, f.state)],
         res |-> IF f.err = "none" THEN "Ok" ELSE f.err]

\* apply_atoms: the game after the call and its result ("Ok", an error, or
\* "panic").  The generator is the game's own, advanced in place.
ApplyAtoms(g, atoms) ==
    The({IF f.err = "none"
         THEN [game |-> [g EXCEPT !.history = recorded,
                                  !.rand = f.rand,
                                  !.game_states = Append(@, f.state)],
               res |-> "Ok"]
         ELSE [game |-> [g EXCEPT !.history = recorded, !.rand = f.rand],
               res |-> f.err] :
            recorded \in {RecordBatch(g, atoms)},
            f \in {FoldAtoms(LatestGamestate(g), g.rand, atoms)}})

(***************************************************************************)
(* The card database and the effect handlers.  A card is the list of the   *)
(* handlers of its on-resolve triggered effects, in order.                 *)
(***************************************************************************)
DealDamage(n) == [tag |-> "DealDamage", n |-> n]
DrawCards(n) == [tag |-> "DrawCards", n |-> n]

\* the amounts the two cards of the database carry
BlastAmount == 3
DrawAmount == 3

\* blast and draw are the cards of the test database; volley is a card with
\* two on-resolve handlers that each ask for a target.
Cards ==
    [c \in {"blast", "draw", "volley"} |->
        CASE c = "blast" -> <<DealDamage(BlastAmount)>>
          [] c = "draw" -> <<DrawCards(DrawAmount)>>
          [] OTHER -> <<DealDamage(BlastAmount), DealDamage(BlastAmount + 1)>>]

\* InstantEffect::get_required_info: the names asked for, each a SingleTarget
\* request without restriction.
GetRequiredInfo(h) == IF h.tag = "DealDamage" THEN <<"target">> ELSE <<>>

\* The requests of a card's on-resolve handlers, as (handler index, name), in
\* the order run() asks them; handler indices count from 0 (enumerate()).
InfoRequests(handlers) ==
    Flatten([i \in 1..Len(handlers) |->
        [k \in 1..Len(GetRequiredInfo(handlers[i])) |->
            <<i - 1, GetRequiredInfo(handlers[i])[k]>>]])

\* Game::get_controller_of: the controller of the object with this id on the
\* battlefield or the stack, NoPlayer when there is none.
GetControllerOf(st, object) ==
    LET objs == st.zones[Battlefield] \o st.zones[Stack]
        i == PositionOf(objs, object)
    IN  IF i = 0 THEN NoPlayer ELSE objs[i].controller

\* InstantEffect::execute of the two handlers: the atoms, or the failure.
Execute(h, info, source, st) ==
    IF h.tag = "DealDamage"
    THEN IF "target" \in DOMAIN info
         THEN [err |-> "none", atoms |-> <<DealDamageAtom(h.n, source, info["target"])>>]
         ELSE [err |-> "EffectExecuteFailure", atoms |-> <<>>]
    ELSE IF GetControllerOf(st, source) # NoPlayer
         THEN [err |-> "none", atoms |-> <<DrawCardsAtom(GetControllerOf(st, source), h.n)>>]
         ELSE [err |-> "EffectExecuteFailure", atoms |-> <<>>]

\* A variant of InfoFor that looks the entries up by name alone.
InfoForAnyIndex(choices, idx) ==
    [name \in {k[2] : k \in DOMAIN choices} |->
        choices[CHOOSE k \in DOMAIN choices : k[2] = name]]

\* The info map handed to the handler with index idx: the entries of the
\* object's choices whose key starts with idx, keyed by the name alone.
InfoFor(choices, idx) ==
    [name \in {k[2] : k \in {k \in DOMAIN choices : k[1] = idx}} |-> choices[<<idx, name>>]]

\* The atoms of the handlers from position i on, stopping at the first failure.
RECURSIVE ExecuteFrom(_, _, _, _)
ExecuteFrom(handlers, i, top_item, st) ==
    IF i > Len(handlers) THEN [err |-> "none", atoms |-> <<>>]
    ELSE LET one == Execute(handlers[i], InfoFor(top_item.choices, i - 1), top_item.id, st)
         IN  IF one.err # "none" THEN one
             ELSE LET rest == ExecuteFrom(handlers, i + 1, top_item, st)
                  IN  [err |-> rest.err, atoms |-> one.atoms \o rest.atoms]

(***************************************************************************)
(* run: one step.  ans holds the outside's answers: fail (the number of    *)
(* the outside call of this step that ends in an RPC error, 0 for none),   *)
(* keeping, action, targets (one answer per target request) and pass.      *)
(***************************************************************************)
\* What a step leaves: the game, the result, the branch taken and the outside
\* calls made (the last one failed when res is RPCError).
\* The payload of the error a step returned, for the errors that carry one.
NoDetail == [error |-> "none"]
InvalidAction(list_length, selected_action) ==
    [error |-> "InvalidAction", list_length |-> list_length,
     selected_action |-> selected_action]

InvalidChoiceAmount(expected, received) ==
    [error |-> "InvalidChoiceAmount", expected |-> expected, received |-> received]

\* targets: the answers to get_target_choices_from_given the step received;
\* listed: the players the step sent to get_player_keeping.
OutcomeWith(g, res, branch, calls, detail) ==
    [game |-> g, res |-> res, branch |-> branch, calls |-> calls, detail |-> detail,
     targets |-> <<>>, listed |-> <<>>]

Outcome(g, res, branch, calls) == OutcomeWith(g, res, branch, calls, NoDetail)

KeepingCall == "get_player_keeping"
ActionCall == "get_next_player_action_from"
TargetCall == "get_target_choices_from_given"
PassingCall == "get_player_passing"

\* The players of the map not yet keeping, in the map's iteration order.
NotKeeping(g, st) == SeqFilterOut(g.keys, st.game_stage.players_keeping)

\* The mulligan atoms of one player, by hand size.
MulliganDraw == 7

\* A variant of MulliganAtomsOf without the forced keep at one card.
MulliganAtomsOfNoForcedKeep(st, p) ==
    LET count == Len(st.zones[Hand(p)])
    IN  CASE count = 0 -> <<DrawCardsAtom(p, MulliganDraw)>>
          [] OTHER -> <<ShuffleHandIntoLibrary(p), DrawCardsAtom(p, count - 1)>>

MulliganAtomsOf(st, p) ==
    LET count == Len(st.zones[Hand(p)])
    IN  CASE count = 1 -> <<ShuffleHandIntoLibrary(p), KeepHand(p)>>
          [] count = 0 -> <<DrawCardsAtom(p, MulliganDraw)>>
          [] OTHER -> <<ShuffleHandIntoLibrary(p), DrawCardsAtom(p, count - 1)>>

MulliganAtoms(g) ==
    LET st == LatestGamestate(g)
        ps == NotKeeping(g, st)
    IN  Flatten([k \in 1..Len(ps) |-> MulliganAtomsOf(st, ps[k])])

KeepAtoms(keeping) == [k \in 1..Len(keeping) |-> KeepHand(keeping[k])]

\* After the keep answers are applied: StartGame once everyone keeps.
RunKeepStart(g) ==
    IF Cardinality(LatestGamestate(g).game_stage.players_keeping) = Cardinality(g.players)
    THEN LET a == ApplyAtoms(g, <<StartGame>>)
         IN  Outcome(a.game, a.res, "keep", <<KeepingCall>>)
    ELSE Outcome(g, "Ok", "keep", <<KeepingCall>>)

\* A variant of RunKeepHand that asks every player of the map again.
RunKeepHandAsksAll(g, ans) ==
    LET a1 == ApplyAtoms(g, MulliganAtoms(g))
        players_not_kept_yet == g.keys
    IN  IF a1.res # "Ok" THEN Outcome(a1.game, a1.res, "keep", <<>>)
        ELSE IF ans.fail = 1
             THEN [Outcome(a1.game, "RPCError", "keep", <<KeepingCall>>)
                      EXCEPT !.listed = players_not_kept_yet]
        ELSE LET a2 == ApplyAtoms(a1.game, KeepAtoms(ans.keeping))
             IN  IF a2.res # "Ok"
                 THEN [Outcome(a2.game, a2.res, "keep", <<KeepingCall>>)
                          EXCEPT !.listed = players_not_kept_yet]
                 ELSE [RunKeepStart(a2.game) EXCEPT !.listed = players_not_kept_yet]

RunKeepHand(g, ans) ==
    The({IF a1.res # "Ok" THEN Outcome(a1.game, a1.res, "keep", <<>>)
         ELSE The({IF ans.fail = 1
                   THEN [Outcome(a1.game, "RPCError", "keep", <<KeepingCall>>)
                            EXCEPT !.listed = players_not_kept_yet]
                   ELSE The({IF a2.res # "Ok"
                             THEN [Outcome(a2.game, a2.res, "keep", <<KeepingCall>>)
                                      EXCEPT !.listed = players_not_kept_yet]
                             ELSE [RunKeepStart(a2.game)
                                      EXCEPT !.listed = players_not_kept_yet] :
                               a2 \in {ApplyAtoms(a1.game, KeepAtoms(ans.keeping))}}) :
                     players_not_kept_yet
                        \in {NotKeeping(a1.game, LatestGamestate(a1.game))}}) :
           a1 \in {ApplyAtoms(g, MulliganAtoms(g))}})

\* A variant of RunResolve that pops and resets also when the stack is empty.
RunResolveAlways(g) ==
    LET st == LatestGamestate(g)
        stack == st.zones[Stack]
        top_item == stack[Len(stack)]
    IN  IF stack = <<>>
        THEN LET a == ApplyAtoms(g, <<PopStack, ResetPriority>>)
             IN  Outcome(a.game, a.res, "resolve", <<>>)
        ELSE IF top_item.underlying_card = NoCard
             THEN Outcome(g, "NoUnderlyingCard", "resolve", <<>>)
        ELSE IF top_item.underlying_card \notin DOMAIN Cards
             THEN Outcome(g, "CardNotFound", "resolve", <<>>)
        ELSE LET ex == ExecuteFrom(Cards[top_item.underlying_card], 1, top_item, st)
             IN  IF ex.err # "none" THEN Outcome(g, ex.err, "resolve", <<>>)
                 ELSE LET a == ApplyAtoms(g, ex.atoms \o <<PopStack, ResetPriority>>)
                      IN  Outcome(a.game, a.res, "resolve", <<>>)

\* All players passed: resolve the top of the stack.
RunResolve(g) ==
    LET st == LatestGamestate(g)
        stack == st.zones[Stack]
        top_item == stack[Len(stack)]
    IN  IF stack = <<>> THEN Outcome(g, "panic", "turn", <<>>)
        ELSE IF top_item.underlying_card = NoCard
             THEN Outcome(g, "NoUnderlyingCard", "resolve", <<>>)
        ELSE IF top_item.underlying_card \notin DOMAIN Cards
             THEN Outcome(g, "CardNotFound", "resolve", <<>>)
        ELSE The({IF ex.err # "none" THEN Outcome(g, ex.err, "resolve", <<>>)
                  ELSE The({Outcome(a.game, a.res, "resolve", <<>>) :
                              a \in {ApplyAtoms(g, ex.atoms \o <<PopStack, ResetPriority>>)}}) :
                    ex \in {ExecuteFrom(Cards[top_item.underlying_card], 1, top_item, st)}})

\* possible_actions: PassPriority, then one PlayCard per object of the hand.
PlayCardAction(from, o) == [tag |-> "PlayCard", from |-> from, object |-> o]
PassPriorityAction == [tag |-> "PassPriority"]

\* A variant of PossibleActions that lists the hand from its last object.
PossibleActionsReversed(st, p) ==
    <<PassPriorityAction>> \o
    [k \in 1..Len(st.zones[Hand(p)]) |->
        PlayCardAction(Hand(p), st.zones[Hand(p)][Len(st.zones[Hand(p)]) - k + 1].id)]

PossibleActions(st, p) ==
    <<PassPriorityAction>> \o
    [k \in 1..Len(st.zones[Hand(p)]) |-> PlayCardAction(Hand(p), st.zones[Hand(p)][k].id)]

\* What get_next_player_action_from is sent: the player asked and the list.
NoSent == [player |-> NoPlayer, actions |-> <<>>]

ActionRequest(g) ==
    LET st == LatestGamestate(g)
        active_player == Head(st.unpassed_players)
    IN  [player |-> active_player, actions |-> PossibleActions(st, active_player)]

\* The candidates of an unrestricted single target: the players, in the
\* map's iteration order (filtering a non-empty battlefield is todo!()).
PossibleChoices(g) == [k \in 1..Len(g.keys) |-> TargetPlayer(g.keys[k])]

\* A variant of SelectedChoices that counts the candidates from 1.
SelectedChoicesFromOne(cands, choices) ==
    SelectSeq([k \in 1..Len(cands) |-> <<k, cands[k]>>],
              LAMBDA x : x[1] \in Range(choices))

\* The candidates whose 0-based index is among the answered indices.
SelectedChoices(cands, choices) ==
    SelectSeq([k \in 1..Len(cands) |-> <<k - 1, cands[k]>>],
              LAMBDA x : x[1] \in Range(choices))

\* The target requests from request k on: the gathered info, the calls made
\* and the error ("none" when every request was answered well).
RECURSIVE GatherFrom(_, _, _, _, _, _)
GatherFrom(reqs, k, ans, cands, info, calls) ==
    LET made == Append(calls, TargetCall)
    IN  IF k > Len(reqs) THEN [err |-> "none", info |-> info, calls |-> calls, received |-> k - 1]
        ELSE IF ans.fail = k + 1
             THEN [err |-> "RPCError", info |-> info, calls |-> made, received |-> k - 1]
        ELSE IF Len(ans.targets[k]) # 1
             THEN [err |-> "InvalidChoiceAmount", info |-> info, calls |-> made, received |-> k]
        ELSE IF SelectedChoices(cands, ans.targets[k]) = <<>>
             THEN [err |-> "panic", info |-> info, calls |-> made, received |-> k]
        ELSE GatherFrom(reqs, k + 1, ans, cands,
                        (reqs[k] :> SelectedChoices(cands, ans.targets[k])[1][2]) @@ info,
                        made)

\* The player the card-play subroutine plays the card for.
PlayingPlayer(st) == Head(st.active_player_order)

\* A variant of PlayAtoms that resets priority after the card is played.
PlayAtomsWithReset(p, from, object, info, player_passing) ==
    <<PlayerPlayCard(p, from, object, info)>> \o
    (IF player_passing THEN <<PassPriority(p)>> ELSE <<>>) \o <<ResetPriority>>

\* The batch that commits a played card.
PlayAtoms(p, from, object, info, player_passing) ==
    <<PlayerPlayCard(p, from, object, info)>> \o
    (IF player_passing THEN <<PassPriority(p)>> ELSE <<>>)

\* A variant of RunPlayCard that applies the batch before it asks whether
\* the player passes.
RunPlayCardCommitsFirst(g, ans, from, object) ==
    LET st == LatestGamestate(g)
        active_player == PlayingPlayer(st)
        idx == PositionOf(st.zones[from], object)
        card == st.zones[from][idx].underlying_card
        asked == <<ActionCall>>
    IN  IF idx = 0 THEN Outcome(g, "ObjectNotFoundInZone", "play", asked)
        ELSE IF card = NoCard THEN Outcome(g, "NoUnderlyingCard", "play", asked)
        ELSE IF card \notin DOMAIN Cards THEN Outcome(g, "CardNotFound", "play", asked)
        ELSE LET reqs == InfoRequests(Cards[card])
                 gi == GatherFrom(reqs, 1, ans, PossibleChoices(g), <<>>, asked)
                 done == Append(gi.calls, PassingCall)
                 got == SubSeq(ans.targets, 1, gi.received)
                 a == ApplyAtoms(g, PlayAtoms(active_player, from, object, gi.info, FALSE))
             IN  IF gi.err # "none"
                 THEN [Outcome(g, gi.err, "play", gi.calls) EXCEPT !.targets = got]
                 ELSE IF ans.fail = Len(reqs) + 2
                      THEN [Outcome(a.game, "RPCError", "play", done) EXCEPT !.targets = got]
                 ELSE [Outcome(a.game, a.res, "play", done) EXCEPT !.targets = got]

RunPlayCard(g, ans, from, object) ==
    LET st == LatestGamestate(g)
        active_player == PlayingPlayer(st)
        idx == PositionOf(st.zones[from], object)
        card == st.zones[from][idx].underlying_card
        asked == <<ActionCall>>
    IN  IF idx = 0 THEN Outcome(g, "ObjectNotFoundInZone", "play", asked)
        ELSE IF card = NoCard THEN Outcome(g, "NoUnderlyingCard", "play", asked)
        ELSE IF card \notin DOMAIN Cards THEN Outcome(g, "CardNotFound", "play", asked)
        ELSE IF InfoRequests(Cards[card]) # <<>> /\ st.zones[Battlefield] # <<>>
             THEN Outcome(g, "panic", "play", asked)
        ELSE LET reqs == InfoRequests(Cards[card])
             IN  The({The({IF gi.err = "InvalidChoiceAmount"
                           THEN [OutcomeWith(g, gi.err, "play", gi.calls,
                                             InvalidChoiceAmount(1, Len(got[Len(got)])))
                                    EXCEPT !.targets = got]
                           ELSE IF gi.err # "none"
                                THEN [Outcome(g, gi.err, "play", gi.calls)
                                         EXCEPT !.targets = got]
                           ELSE IF ans.fail = Len(reqs) + 2
                                THEN [Outcome(g, "RPCError", "play", done)
                                         EXCEPT !.targets = got]
                           ELSE The({[Outcome(a.game, a.res, "play", done)
                                         EXCEPT !.targets = got] :
                                       a \in {ApplyAtoms(g, PlayAtoms(active_player, from,
                                                                      object, gi.info,
                                                                      ans.pass))}}) :
                             got \in {SubSeq(ans.targets, 1, gi.received)},
                             done \in {Append(gi.calls, PassingCall)}}) :
                       gi \in {GatherFrom(reqs, 1, ans, PossibleChoices(g), <<>>, asked)}})

\* A variant of RunPriority that takes an index past the list for the last
\* action of the list.
RunPriorityClamped(g, ans) ==
    LET st == LatestGamestate(g)
        active_player == Head(st.unpassed_players)
        possible_actions == PossibleActions(st, active_player)
        idx == Min(ans.action + 1, Len(possible_actions))
    IN  IF ans.fail = 1 THEN Outcome(g, "RPCError", "action", <<ActionCall>>)
        ELSE IF possible_actions[idx].tag = "PassPriority"
             THEN LET a == ApplyAtoms(g, <<PassPriority(active_player)>>)
                  IN  Outcome(a.game, a.res, "pass", <<ActionCall>>)
        ELSE RunPlayCard(g, ans, possible_actions[idx].from, possible_actions[idx].object)

\* Some player has not passed: ask the one holding priority for an action.
RunPriority(g, ans) ==
    LET st == LatestGamestate(g)
        active_player == ActionRequest(g).player
        possible_actions == ActionRequest(g).actions
    IN  IF ans.fail = 1 THEN Outcome(g, "RPCError", "action", <<ActionCall>>)
        ELSE IF ans.action + 1 > Len(possible_actions)
             THEN OutcomeWith(g, "InvalidAction", "action", <<ActionCall>>,
                              InvalidAction(Len(possible_actions), ans.action))
        ELSE IF possible_actions[ans.action + 1].tag = "PassPriority"
             THEN LET a == ApplyAtoms(g, <<PassPriority(active_player)>>)
                  IN  Outcome(a.game, a.res, "pass", <<ActionCall>>)
        ELSE RunPlayCard(g, ans, possible_actions[ans.action + 1].from,
                         possible_actions[ans.action + 1].object)

Run(g, ans) ==
    LET st == LatestGamestate(g)
    IN  IF st.game_stage.tag = "KeepHand" THEN RunKeepHand(g, ans)
        ELSE IF st.unpassed_players = <<>> THEN RunResolve(g)
        ELSE RunPriority(g, ans)

(***************************************************************************)
(* Construction: GameImplV1::new and new_game_state_with.                  *)
(***************************************************************************)
\* The objects of a library, one per initial card, minted in card order.
RECURSIVE MintLibrary(_, _)
MintLibrary(cards, r) ==
    IF cards = <<>> THEN [objs |-> <<>>, rand |-> r]
    ELSE LET one == FromCard(r, Head(cards))
             rest == MintLibrary(Tail(cards), one.rand)
         IN  [objs |-> <<one.obj>> \o rest.objs, rand |-> rest.rand]

\* The libraries of the players, minted in the iteration order of the map.
RECURSIVE MintLibraries(_, _, _)
MintLibraries(keys, decks, r) ==
    IF keys = <<>> THEN [libs |-> <<>>, rand |-> r]
    ELSE LET one == MintLibrary(decks[Head(keys)], r)
             rest == MintLibraries(Tail(keys), decks, one.rand)
         IN  [libs |-> (Head(keys) :> one.objs) @@ rest.libs, rand |-> rest.rand]

\* A variant of NewGameStateWith that gives priority in the map's order.
NewGameStateWithMapOrder(r, keys, decks, order) ==
    LET m == MintLibraries(keys, decks, r)
    IN  [state |->
            [game_stage |-> KeepHandStage({}),
             active_player_order |-> order,
             unpassed_players |-> keys,
             zones |-> [z \in ZonesOf(Range(keys)) |->
                           IF z[1] = "Library" THEN m.libs[z[2]] ELSE <<>>]],
         rand |-> m.rand]

NewGameStateWith(r, keys, decks, order) ==
    LET m == MintLibraries(keys, decks, r)
    IN  [state |->
            [game_stage |-> KeepHandStage({}),
             active_player_order |-> order,
             unpassed_players |-> order,
             zones |-> [z \in ZonesOf(Range(keys)) |->
                           IF z[1] = "Library" THEN m.libs[z[2]] ELSE <<>>]],
         rand |-> m.rand]

\* GameImplV1::new.  keys is the iteration order of the player map; rand0
\* remembers the generator as construction left it.
New(seed, keys, decks, order) ==
    LET n == NewGameStateWith(seed, keys, decks, order)
    IN  [players |-> Range(keys),
         keys |-> keys,
         rand |-> n.rand,
         rand0 |-> n.rand,
         game_states |-> <<n.state>>,
         history |-> <<>>]

(***************************************************************************)
(* The inputs: the games built and the answers of the outside.             *)
(***************************************************************************)
PlayerSets == {{1}, {1, 2}}

\* the decks every player of a game is given
DeckOptions == {<<"draw", "blast", "draw">>, <<"blast", "ghost">>}

\* longest answer to get_player_keeping
MaxKeepAnswer == 2

\* Answers to get_player_keeping: ids in any order, asked for or not.
KeepAnswers(g) ==
    LET ids == g.players \cup {Stranger}
    IN  {s \in UNION {[1..n -> ids] : n \in 0..MaxKeepAnswer} :
            \A i, j \in 1..Len(s) : i # j => s[i] # s[j]}

\* Answers to one get_target_choices_from_given: no index, one index (in range
\* or just past the candidates), or two.
TargetAnswers(g) ==
    {<<>>} \cup {<<i>> : i \in 0..Len(g.keys)} \cup {<<0, 1>>}

NoAnswer == [fail |-> 0, keeping |-> <<>>, action |-> 0, targets |-> <<>>, pass |-> FALSE]

\* The target requests the action index leads to in the latest state.
RequestsOf(g, action) ==
    LET st == LatestGamestate(g)
        hand == st.zones[Hand(Head(st.unpassed_players))]
    IN  IF action = 0 \/ action > Len(hand) THEN <<>>
        ELSE IF hand[action].underlying_card \notin DOMAIN Cards THEN <<>>
        ELSE InfoRequests(Cards[hand[action].underlying_card])

\* The callers of run (the game task of create_game, the test harness) stop at
\* the first step that does not return Ok.
Stopped == last.res # "Ok"

Record(op, o, g, ans) ==
    [op |-> op, res |-> o.res, branch |-> o.branch, calls |-> o.calls,
     holder |-> IF o.branch \in {"action", "pass", "play"}
                THEN Head(LatestGamestate(g).unpassed_players) ELSE NoPlayer,
     action |-> ans.action,
     pass |-> ans.pass,
     states |-> Len(g.game_states),
     detail |-> o.detail,
     sent |-> IF o.branch \in {"action", "pass", "play"} THEN ActionRequest(g) ELSE NoSent,
     targets |-> o.targets,
     listed |-> o.listed]

\* No second game is built.
NoTwin == [game |-> <<>>, res |-> "Ok"]

\* No server holds the game: run is called on it directly.
NoServer ==
    [games |-> {}, task |-> "none", abort |-> FALSE, base |-> <<>>, ans |-> NoAnswer,
     at |-> 0, result |-> "none", request |-> 0]

Init ==
    \E seed \in Seeds, players \in PlayerSets, deck \in DeckOptions :
        \E keys \in Perms(players), order \in Perms(players) :
            /\ game = New(seed, keys, [p \in players |-> deck], order)
            /\ last = [op |-> "new", res |-> "Ok", branch |-> "none", calls |-> <<>>,
                       holder |-> NoPlayer, action |-> 0, pass |-> FALSE, states |-> 0,
                       detail |-> NoDetail, sent |-> NoSent, targets |-> <<>>, listed |-> <<>>]
            /\ twin = NoTwin
            /\ server = NoServer

CanStep == ~Stopped /\ Len(game.history) < MaxHistory

Commit(ans) ==
    \E o \in {Run(game, ans)} :
        /\ game' = o.game
        /\ last' = Record("run", o, game, ans)
        /\ UNCHANGED <<twin, server>>

\* run in the keep-hand stage.
StepKeepHand ==
    /\ CanStep
    /\ LatestGamestate(game).game_stage.tag = "KeepHand"
    /\ \E fail \in 0..1, keeping \in KeepAnswers(game) :
          /\ fail = 1 => keeping = <<>>
          /\ LET ans == [NoAnswer EXCEPT !.fail = fail, !.keeping = keeping]
             IN  Commit(ans)

\* run in the game-running stage when every player has passed.
StepResolve ==
    /\ CanStep
    /\ LatestGamestate(game).game_stage.tag = "GameRunning"
    /\ LatestGamestate(game).unpassed_players = <<>>
    /\ Commit(NoAnswer)

\* run in the game-running stage when some player holds priority.
StepPriority ==
    /\ CanStep
    /\ LatestGamestate(game).game_stage.tag = "GameRunning"
    /\ LatestGamestate(game).unpassed_players # <<>>
    /\ \E action \in 0..(Len(LatestGamestate(game).zones[
                            Hand(Head(LatestGamestate(game).unpassed_players))]) + 1) :
          LET n == Len(RequestsOf(game, action))
          IN  \E fail \in 0..(n + 2), targets \in [1..n -> TargetAnswers(game)],
                 pass \in BOOLEAN :
                    LET ans == [NoAnswer EXCEPT !.fail = fail, !.action = action,
                                                !.targets = targets, !.pass = pass]
                    IN  Commit(ans)

Next == StepKeepHand \/ StepResolve \/ StepPriority

Spec == Init /\ [][Next]_vars

(***************************************************************************)
(* The public API: apply_atoms called directly on a game, with batches of  *)
(* at most two atoms.                                                      *)
(***************************************************************************)
\* The id of the object DrawCards would move first, MissingObject if none.
TopOfLibrary(st, p) ==
    IF st.zones[Library(p)] = <<>> THEN MissingObject
    ELSE st.zones[Library(p)][Len(st.zones[Library(p)])].id

\* the largest count of a DrawCards atom, more than any library holds
MaxDraw == 4

ApiAtoms(g) ==
    LET st == LatestGamestate(g)
    IN  {StartGame, ResetPriority, PopStack}
        \cup {KeepHand(p) : p \in g.players}
        \cup {ShuffleHandIntoLibrary(p) : p \in g.players}
        \cup {DrawCardsAtom(p, n) : p \in g.players, n \in {0, 1, MaxDraw}}
        \cup {PassPriority(p) : p \in g.players}
        \cup UNION {{PlayerPlayCard(p, Hand(q), o, <<>>) :
                        p \in g.players, o \in {TopOfLibrary(st, q), MissingObject}} :
                    q \in g.players}

ApiBatches(g) ==
    {<<a>> : a \in ApiAtoms(g)} \cup {<<a, b>> : a \in ApiAtoms(g), b \in ApiAtoms(g)}

ApiCall ==
    /\ last.res # "panic"
    /\ Len(game.history) < MaxApiCalls
    /\ \E atoms \in ApiBatches(game) :
          \E a \in {ApplyAtoms(game, atoms)} :
              /\ game' = a.game
              /\ last' = [op |-> "apply_atoms", res |-> a.res, branch |-> "none",
                          calls |-> <<>>, holder |-> NoPlayer, action |-> 0,
                          pass |-> FALSE, states |-> Len(game.game_states),
                          detail |-> NoDetail, sent |-> NoSent, targets |-> <<>>, listed |-> <<>>]
              /\ UNCHANGED <<twin, server>>

NextApi == ApiCall

SpecApi == Init /\ [][NextApi]_vars

(***************************************************************************)
(* Two games built from the same seed, players, decks and order, each over *)
(* its own player map, and given the same answers.                         *)
(***************************************************************************)
InitTwin ==
    \E seed \in Seeds, players \in PlayerSets, deck \in DeckOptions :
        \E keys \in Perms(players), keys2 \in Perms(players), order \in Perms(players) :
            /\ game = New(seed, keys, [p \in players |-> deck], order)
            /\ twin = [game |-> New(seed, keys2, [p \in players |-> deck], order),
                       res |-> "Ok"]
            /\ last = [op |-> "new", res |-> "Ok", branch |-> "none", calls |-> <<>>,
                       holder |-> NoPlayer, action |-> 0, pass |-> FALSE, states |-> 0,
                       detail |-> NoDetail, sent |-> NoSent, targets |-> <<>>, listed |-> <<>>]
            /\ server = NoServer

\* the most target requests a card of the database makes
MaxRequests == 1

\* Both games take one step with the same answers.
RunBoth(ans) == [g \in {1, 2} |-> Run(IF g = 1 THEN game ELSE twin.game, ans)]

CommitTwin(ans) ==
    \E o \in {RunBoth(ans)} :
        /\ game' = o[1].game
        /\ last' = Record("run", o[1], game, ans)
        /\ twin' = [game |-> o[2].game, res |-> o[2].res]
        /\ UNCHANGED server

CanStepTwin == CanStep /\ twin.res = "Ok"

TwinKeepHand ==
    /\ CanStepTwin
    /\ LatestGamestate(game).game_stage.tag = "KeepHand"
    /\ \E keeping \in KeepAnswers(game) :
          CommitTwin([NoAnswer EXCEPT !.keeping = keeping])

TwinResolve ==
    /\ CanStepTwin
    /\ LatestGamestate(game).game_stage.tag = "GameRunning"
    /\ LatestGamestate(game).unpassed_players = <<>>
    /\ CommitTwin(NoAnswer)

TwinPriority ==
    /\ CanStepTwin
    /\ LatestGamestate(game).game_stage.tag = "GameRunning"
    /\ LatestGamestate(game).unpassed_players # <<>>
    /\ \E action \in 0..(Len(LatestGamestate(game).zones[
                            Hand(Head(LatestGamestate(game).unpassed_players))]) + 1),
          targets \in [1..MaxRequests -> TargetAnswers(game)], pass \in BOOLEAN :
             CommitTwin([NoAnswer EXCEPT !.action = action, !.targets = targets,
                                         !.pass = pass])

NextTwin == TwinKeepHand \/ TwinResolve \/ TwinPriority

SpecTwin == InitTwin /\ [][NextTwin]_vars

(***************************************************************************)
(* Properties.                                                             *)
(***************************************************************************)
LastBatch(g) == g.history[Len(g.history)][2]

ApplyErrors ==
    {"GameAlreadyRunning", "KeepHandDuringGame", "InvalidPlayerPassing", "ObjectNotFoundInZone"}

\* The objects of a state, zone after zone.
RECURSIVE ObjectsIn(_, _)
ObjectsIn(st, zs) ==
    IF zs = {} THEN <<>>
    ELSE LET z == CHOOSE z \in zs : TRUE
         IN  st.zones[z] \o ObjectsIn(st, zs \ {z})

AllObjects(st) == ObjectsIn(st, DOMAIN st.zones)

\* The states the last operation pushed: game_states[0] after construction,
\* the successors a run step or an apply_atoms call appended.  Every state of
\* a reachable game is among them in the reachable state where it was pushed.
NewStates == (last.states + 1)..Len(game.game_states)

\* C1: after every apply_atoms call that returned, with Ok or with an error,
\* game_states holds exactly one state more than history holds batches.
C1_HistoryOneShorter ==
    last.res # "panic" => Len(game.game_states) = Len(game.history) + 1

\* C2: an apply_atoms call that fails returns the error of the first failing
\* atom of the batch, pushes no state and leaves every recorded state as it
\* was, also when the atoms before the failing one applied.
C2_NoPartialCommit ==
    [][(last'.op = "apply_atoms" /\ last'.res # "Ok")
        => /\ game'.game_states = game.game_states
           /\ LET atoms == LastBatch(game')
                  one == ApplyAtom(LatestGamestate(game), game.rand, atoms[1])
              IN  IF one.err # "none" THEN last'.res = one.err
                  ELSE /\ Len(atoms) = 2
                       /\ last'.res = ApplyAtom(one.state, one.rand, atoms[2]).err]_vars

\* C2 happens: a batch failed at its second atom after a first atom that
\* applied and would have changed the state.
C2_Witness ==
    /\ last.op = "apply_atoms"
    /\ last.res \in ApplyErrors
    /\ Len(LastBatch(game)) = 2
    /\ ApplyAtom(LatestGamestate(game), game.rand0, LastBatch(game)[1]).err = "none"
    /\ ApplyAtom(LatestGamestate(game), game.rand0, LastBatch(game)[1]).state
          # LatestGamestate(game)

\* C3: a run step that returns an error leaves the latest state as it was
\* before the step.
C3_ErrorKeepsState ==
    [][(last'.op = "run" /\ last'.res \notin {"Ok", "panic"})
        => LatestGamestate(game') = LatestGamestate(game)]_vars

\* C4: two games built from the same seed, players and order and given the
\* same answers have the same history and the same sequence of states.
C4_TwinsAgree ==
    /\ game.history = twin.game.history
    /\ game.game_states = twin.game.game_states

\* Replaying a history: every batch applied in order by apply_atoms to a game
\* holding game_states[0] and the generator as construction left it.  ok tells
\* whether every batch applied, state is the latest state reached.
RECURSIVE ReplayFrom(_, _, _)
ReplayFrom(g, history, i) ==
    IF i > Len(history) THEN [ok |-> TRUE, state |-> LatestGamestate(g)]
    ELSE LET a == ApplyAtoms(g, history[i][2])
         IN  IF a.res # "Ok" THEN [ok |-> FALSE, state |-> LatestGamestate(g)]
             ELSE ReplayFrom(a.game, history, i + 1)

Replay(g) ==
    ReplayFrom([g EXCEPT !.game_states = <<g.game_states[1]>>,
                         !.history = <<>>,
                         !.rand = g.rand0],
               g.history, 1)

\* C5: replaying the history against game_states[0] with the generator as it
\* was after construction gives the latest state, after failed batches too.
C5_ReplayReconstructs ==
    last.res # "panic" => Replay(game).ok /\ Replay(game).state = LatestGamestate(game)

\* C6: the PlayerPlayCard atom of a card-play step names the player who held
\* priority, and the played object gets that player as controller.
C6_PlayNamesHolder ==
    [][(last'.op = "run" /\ last'.branch = "play"
            /\ Len(game'.history) > Len(game.history))
        => /\ LastBatch(game')[1].tag = "PlayerPlayCard"
           /\ LastBatch(game')[1].player = Head(LatestGamestate(game).unpassed_players)
           /\ last'.res = "Ok" =>
                 LET stack == LatestGamestate(game').zones[Stack]
                 IN  stack[Len(stack)].controller
                        = Head(LatestGamestate(game).unpassed_players)]_vars

\* The passing question of the last step was asked and answered.
PassingAnswered(l) ==
    /\ l.calls # <<>>
    /\ l.calls[Len(l.calls)] = PassingCall
    /\ l.res # "RPCError"

\* C7: a card-play step in which the player answers get_player_passing with
\* true succeeds: the object has left the holder's hand, the stack holds one
\* object more and the holder is no longer in unpassed_players.
C7_PlayAndPassSucceeds ==
    [][(last'.op = "run" /\ last'.branch = "play" /\ PassingAnswered(last') /\ last'.pass)
        => LET before == LatestGamestate(game)
               after == LatestGamestate(game')
               holder == Head(before.unpassed_players)
               object == before.zones[Hand(holder)][last'.action].id
           IN  /\ last'.res = "Ok"
               /\ PositionOf(after.zones[Hand(holder)], object) = 0
               /\ Len(after.zones[Stack]) = Len(before.zones[Stack]) + 1
               /\ holder \notin Range(after.unpassed_players)]_vars

\* C8: in every state pushed by construction or by a step no object of a hand, a library
\* or a discard has a controller, and every object of the stack and of the
\* battlefield has one.
C8_ControllerByZone ==
    \A i \in NewStates :
        \A z \in DOMAIN game.game_states[i].zones :
            \A objs \in {game.game_states[i].zones[z]} :
                \A k \in 1..Len(objs) :
                    objs[k].controller # NoPlayer <=> z \in {Stack, Battlefield}

C8_Witness ==
    /\ LatestGamestate(game).zones[Stack] # <<>>
    /\ \E p \in game.players : LatestGamestate(game).zones[Hand(p)] # <<>>
    /\ \E p \in game.players : LatestGamestate(game).zones[Library(p)] # <<>>

\* C9: in every state pushed by construction or by a step no object id occurs
\* twice, in one zone or in two.
C9_ObjectIdsUnique ==
    \A n \in NewStates :
        \A objs \in {AllObjects(game.game_states[n])} :
            \A i, j \in 1..Len(objs) : objs[i].id = objs[j].id => i = j

C9_Witness ==
    /\ Len(LatestGamestate(game).zones[Stack]) >= 2
    /\ \E p \in game.players : LatestGamestate(game).zones[Hand(p)] # <<>>
    /\ Len(game.game_states) >= 4

\* C10: the zones of every state pushed by construction or by a step are the
\* battlefield, the stack and one hand, one library and one discard per
\* player: 3 * N + 2 zones.
C10_ZoneSet ==
    \A i \in NewStates :
        /\ DOMAIN game.game_states[i].zones
              = {<<"Battlefield", NoPlayer>>, <<"Stack", NoPlayer>>}
                \cup {<<k, p>> : k \in {"Hand", "Library", "Discard"}, p \in game.players}
        /\ Cardinality(DOMAIN game.game_states[i].zones) = 3 * Cardinality(game.players) + 2

C10_Witness ==
    /\ Cardinality(game.players) = 2
    /\ Len(game.game_states) >= 5
    /\ LatestGamestate(game).game_stage.tag = "GameRunning"
    /\ \E i \in 1..Len(game.history) :
          \E k \in 1..Len(game.history[i][2]) : game.history[i][2][k].tag = "PopStack"

\* s is t with some elements left out, the others in the same order.
RECURSIVE IsSubsequence(_, _)
IsSubsequence(s, t) ==
    IF s = <<>> THEN TRUE
    ELSE IF t = <<>> THEN FALSE
    ELSE IF Head(s) = Head(t) THEN IsSubsequence(Tail(s), Tail(t))
    ELSE IsSubsequence(s, Tail(t))

NoRepeats(s) == \A i, j \in 1..Len(s) : s[i] = s[j] => i = j

\* C11: in every state pushed by construction or by a step unpassed_players
\* is a subsequence of active_player_order and holds no player twice.
C11_UnpassedSubsequence ==
    \A i \in NewStates :
        /\ IsSubsequence(game.game_states[i].unpassed_players,
                         game.game_states[i].active_player_order)
        /\ NoRepeats(game.game_states[i].unpassed_players)

\* C11 happens: the first player of two has passed, the second has not.
C11_Witness ==
    /\ last.branch = "pass"
    /\ last.res = "Ok"
    /\ Len(LatestGamestate(game).active_player_order) = 2
    /\ LatestGamestate(game).unpassed_players
          = Tail(LatestGamestate(game).active_player_order)

\* C12: whatever get_player_keeping answers, players_keeping is a subset of
\* the players in every keep-hand state, and the state before the one in which
\* the game is running has all players keeping.
C12_KeepingWithinPlayers ==
    \A i \in NewStates :
        /\ game.game_states[i].game_stage.tag = "KeepHand"
              => game.game_states[i].game_stage.players_keeping \subseteq game.players
        /\ (i > 1 /\ game.game_states[i].game_stage.tag = "GameRunning"
                  /\ game.game_states[i - 1].game_stage.tag = "KeepHand")
              => game.game_states[i - 1].game_stage.players_keeping = game.players

\* The player get_next_player_action_from was asked in the step that recorded
\* batch k: the passing player of a pass, the owner of the hand a card was
\* played from; NoPlayer for the batches of the other steps.
OfferedAt(g, k) ==
    LET first == IF g.history[k][2] = <<>> THEN StartGame ELSE g.history[k][2][1]
    IN  IF first.tag = "PassPriority" THEN first.player
        ELSE IF first.tag = "PlayerPlayCard" THEN first.from[2]
        ELSE NoPlayer

\* The batch that put the object on the stack, 0 when there is none.
PlayedAt(g, object) ==
    LET ks == {k \in 1..Len(g.history) :
                  /\ g.history[k][2] # <<>>
                  /\ g.history[k][2][1].tag = "PlayerPlayCard"
                  /\ g.history[k][2][1].object = object}
    IN  IF ks = {} THEN 0 ELSE CHOOSE k \in ks : \A j \in ks : j <= k

\* C13: when the next step resolves the top of the stack (the game is running,
\* every player has passed, the stack is not empty), every player other than
\* the one who played that object has been offered an action since it was put
\* on the stack.
C13_ResponseOffered ==
    \A st \in {LatestGamestate(game)} :
        (st.game_stage.tag = "GameRunning" /\ st.unpassed_players = <<>>
            /\ st.zones[Stack] # <<>> /\ last.res = "Ok")
        => \A c \in {PlayedAt(game, st.zones[Stack][Len(st.zones[Stack])].id)} :
              /\ c # 0
              /\ \A q \in game.players \ {OfferedAt(game, c)} :
                    \E k \in (c + 1)..Len(game.history) : OfferedAt(game, k) = q

C15_ResolvePopsTop ==
    [][(last'.op = "run" /\ last'.branch = "resolve")
        => \A before \in {LatestGamestate(game)} :
             \A after \in {LatestGamestate(game')} :
                /\ after.zones[Stack]
                      = SubSeq(before.zones[Stack], 1, Len(before.zones[Stack]) - 1)
                /\ after.unpassed_players = after.active_player_order]_vars

(***************************************************************************)
(* Games whose decks outlast the first draw of seven: the same steps, from *)
(* games built with decks of eight cards.                                  *)
(***************************************************************************)
\* a deck of eight: the seven cards drawn first are draw cards
LongDeck == <<"blast", "draw", "draw", "draw", "draw", "draw", "draw", "draw">>

InitDeck ==
    \E players \in PlayerSets :
        \E keys \in Perms(players), order \in Perms(players) :
            /\ game = New(0, keys, [p \in players |-> LongDeck], order)
            /\ last = [op |-> "new", res |-> "Ok", branch |-> "none", calls |-> <<>>,
                       holder |-> NoPlayer, action |-> 0, pass |-> FALSE, states |-> 0,
                       detail |-> NoDetail, sent |-> NoSent, targets |-> <<>>, listed |-> <<>>]
            /\ twin = NoTwin
            /\ server = NoServer

\* longest history a game with long decks is driven to
MaxDeckHistory == 9

CanStepDeck == ~Stopped /\ Len(game.history) < MaxDeckHistory

\* The keep-hand stage with the outside keeping everyone asked (the default
\* answer of the test harness) or no one.
DeckKeepHand ==
    /\ CanStepDeck
    /\ LatestGamestate(game).game_stage.tag = "KeepHand"
    /\ \E keeping \in {<<>>, NotKeeping(game, LatestGamestate(game))} :
          Commit([NoAnswer EXCEPT !.keeping = keeping])

\* The player holding priority passes, or plays the first or the last card
\* of the hand, passing or not; a target request is answered with index 0.
DeckPriority ==
    /\ CanStepDeck
    /\ LatestGamestate(game).game_stage.tag = "GameRunning"
    /\ LatestGamestate(game).unpassed_players # <<>>
    /\ \E action \in {0, 1, Len(LatestGamestate(game).zones[
                                Hand(Head(LatestGamestate(game).unpassed_players))])},
          pass \in BOOLEAN :
             /\ action = 0 => ~pass
             /\ Commit([NoAnswer EXCEPT
                          !.action = action,
                          !.targets = [k \in 1..Len(RequestsOf(game, action)) |-> <<0>>],
                          !.pass = pass])

DeckResolve ==
    /\ CanStepDeck
    /\ LatestGamestate(game).game_stage.tag = "GameRunning"
    /\ LatestGamestate(game).unpassed_players = <<>>
    /\ Commit(NoAnswer)

NextDeck == DeckKeepHand \/ DeckResolve \/ DeckPriority

SpecDeck == InitDeck /\ [][NextDeck]_vars


\* C16: a resolve step whose top object carries the handler DrawCards(n)
\* moves min(n, |Library(p)|) objects from Library(p) to Hand(p), p being the
\* player who played the object, and changes no other hand or library.
C16_DrawForPlayer ==
    [][(last'.op = "run" /\ last'.branch = "resolve"
            /\ LET stack == LatestGamestate(game).zones[Stack]
               IN  Cards[stack[Len(stack)].underlying_card][1].tag = "DrawCards")
        => \A before \in {LatestGamestate(game)} :
             \A after \in {LatestGamestate(game')} :
               \A top \in {before.zones[Stack][Len(before.zones[Stack])]} :
                 \A p \in {OfferedAt(game, PlayedAt(game, top.id))} :
                   \A m \in {Min(Cards[top.underlying_card][1].n,
                                 Len(before.zones[Library(p)]))} :
                      /\ last'.res = "Ok"
                      /\ Len(after.zones[Library(p)]) = Len(before.zones[Library(p)]) - m
                      /\ Len(after.zones[Hand(p)]) = Len(before.zones[Hand(p)]) + m
                      /\ Range(after.zones[Hand(p)])
                            = Range(before.zones[Hand(p)])
                              \cup (Range(before.zones[Library(p)])
                                      \ Range(after.zones[Library(p)]))
                      /\ \A q \in game.players \ {p} :
                            /\ after.zones[Hand(q)] = before.zones[Hand(q)]
                            /\ after.zones[Library(q)] = before.zones[Library(q)]]_vars

\* The stack PopStack meets as atom k of a batch recorded against state s:
\* the stack after the atoms before it (the generator does not touch it).
StackBefore(s, r, atoms, k) == FoldAtoms(s, r, SubSeq(atoms, 1, k - 1)).state.zones[Stack]

\* C17: in every batch a run step records, a PopStack atom meets a stack that
\* holds at least one object.
C17_PopStackNeverEmpty ==
    [][last'.op = "run"
        => \A b \in (Len(game.history) + 1)..Len(game'.history) :
             \A batch \in {game'.history[b]} :
               \A k \in 1..Len(batch[2]) :
                  batch[2][k].tag = "PopStack"
                    => StackBefore(game'.game_states[batch[1] + 1], game.rand,
                                   batch[2], k) # <<>>]_vars

\* C17 happens: a resolve step applied a batch that holds PopStack.
C17_Witness ==
    /\ last.branch = "resolve"
    /\ last.res = "Ok"
    /\ \E k \in 1..Len(LastBatch(game)) : LastBatch(game)[k].tag = "PopStack"
    /\ Len(LatestGamestate(game).active_player_order) = 2

\* C18: a step in which get_next_player_action_from is answered with an index
\* at or past the length of the offered list returns InvalidAction with that
\* length and that index, records no batch and pushes no state.
C18_InvalidActionIndex ==
    [][(/\ last'.op = "run"
        /\ last'.holder # NoPlayer
        /\ ~(last'.res = "RPCError" /\ last'.calls = <<ActionCall>>)
        /\ last'.action >= Len(PossibleActions(LatestGamestate(game), last'.holder)))
        => /\ last'.res = "InvalidAction"
           /\ last'.detail
                 = InvalidAction(Len(PossibleActions(LatestGamestate(game), last'.holder)),
                                 last'.action)
           /\ game'.history = game.history
           /\ game'.game_states = game.game_states]_vars

\* C18 happens: a player with cards in hand answered with an index past the
\* list.
C18_Witness ==
    /\ last.res = "InvalidAction"
    /\ last.detail.list_length >= 2
    /\ last.detail.selected_action >= last.detail.list_length

\* The atoms of the batches a step recorded.
NewAtoms(before, after) ==
    Flatten([b \in 1..(Len(after.history) - Len(before.history)) |->
                after.history[Len(before.history) + b][2]])

\* C19: a keep-hand step that a player starts not keeping and with one object
\* in hand ends with that player keeping (or the game running), whatever the
\* outside answers; and no keep-hand step shuffles or draws for a player who
\* was keeping when it started.
C19_ForcedKeepAtOne ==
    [][(last'.op = "run" /\ last'.branch = "keep")
        => \A before \in {LatestGamestate(game)} :
             \A after \in {LatestGamestate(game')} :
               /\ \A p \in game.players :
                     (p \notin before.game_stage.players_keeping
                         /\ Len(before.zones[Hand(p)]) = 1)
                     => \/ after.game_stage.tag = "GameRunning"
                        \/ p \in after.game_stage.players_keeping
               /\ \A atoms \in {NewAtoms(game, game')} :
                     \A k \in 1..Len(atoms) :
                        atoms[k].tag \in {"ShuffleHandIntoLibrary", "DrawCards"}
                          => atoms[k].player \notin before.game_stage.players_keeping]_vars

\* C19 happens: a step met a player with one object in hand and recorded the
\* forced keep, and the outside call of that step failed.
C19_Witness ==
    /\ last.branch = "keep"
    /\ last.res = "RPCError"
    /\ \E k \in 1..(Len(LastBatch(game)) - 1) :
          /\ LastBatch(game)[k].tag = "ShuffleHandIntoLibrary"
          /\ LastBatch(game)[k + 1].tag = "KeepHand"
          /\ LastBatch(game)[k + 1].player = LastBatch(game)[k].player

(***************************************************************************)
(* The keep-hand stage alone, from games whose libraries hold seven cards: *)
(* run is called until the game starts.                                    *)
(***************************************************************************)
MulliganDeck == <<"draw", "draw", "draw", "draw", "draw", "draw", "draw">>

\* longest history the keep-hand stage is driven to
MaxMulliganHistory == 16

\* Games built as create_game builds them: the order is the iteration order
\* of the player map.
InitMulligan ==
    \E players \in PlayerSets :
        \E keys \in Perms(players) :
            /\ game = New(0, keys, [p \in players |-> MulliganDeck], keys)
            /\ last = [op |-> "new", res |-> "Ok", branch |-> "none", calls |-> <<>>,
                       holder |-> NoPlayer, action |-> 0, pass |-> FALSE, states |-> 0,
                       detail |-> NoDetail, sent |-> NoSent, targets |-> <<>>, listed |-> <<>>]
            /\ twin = NoTwin
            /\ server = NoServer

\* Answers to get_player_keeping that name some of the players asked, in the
\* order asked.
AskedAnswers(g) ==
    LET asked == NotKeeping(g, LatestGamestate(g))
    IN  {SeqFilterOut(asked, out) : out \in SUBSET Range(asked)}

MulliganStep ==
    /\ ~Stopped
    /\ Len(game.history) < MaxMulliganHistory
    /\ LatestGamestate(game).game_stage.tag = "KeepHand"
    /\ \E keeping \in AskedAnswers(game) :
          Commit([NoAnswer EXCEPT !.keeping = keeping])

NextMulligan == MulliganStep

SpecMulligan == InitMulligan /\ [][NextMulligan]_vars

\* C20: when the game is running, every player (each library started with
\* seven cards) holds at least one object in hand.
C20_HandAtLeastOne ==
    LatestGamestate(game).game_stage.tag = "GameRunning"
        => \A p \in game.players : Len(LatestGamestate(game).zones[Hand(p)]) >= 1

(***************************************************************************)
(* The keep-hand stage with answers that may also name an id that is no    *)
(* player of the game.                                                     *)
(***************************************************************************)
\* longest history the keep-hand stage is driven to under such answers
MaxNamedHistory == 16

\* Answers to get_player_keeping: some of the players asked, in the order
\* asked, possibly followed by an id that is no player.
NamedAnswers(g) ==
    AskedAnswers(g) \cup {Append(s, Stranger) : s \in AskedAnswers(g)}

NamedStep ==
    /\ ~Stopped
    /\ Len(game.history) < MaxNamedHistory
    /\ LatestGamestate(game).game_stage.tag = "KeepHand"
    /\ \E keeping \in NamedAnswers(game) :
          Commit([NoAnswer EXCEPT !.keeping = keeping])

NextNamed == NamedStep

SpecNamed == InitMulligan /\ [][NextNamed]_vars

\* The keep-hand steps a game has completed: each records its mulligan batch
\* and then the batch of the keep answer.
KeepSteps(g) == Len(g.history) \div 2

\* The j-th keep answer names p.
NamedAt(g, p, j) ==
    \E i \in 1..Len(g.history[2 * j][2]) : g.history[2 * j][2][i] = KeepHand(p)

\* C21: a player (each library started with seven cards) first named in the
\* keep answer of step k + 1, 0 <= k <= 6, holds 7 - k objects in hand in the
\* state that answer produced and in the latest state; and once every player
\* has been named the game is running.
C21_MulliganOneFewer ==
    /\ \A p \in game.players :
          \A j \in 1..KeepSteps(game) :
             (NamedAt(game, p, j) /\ j <= MulliganDraw
                 /\ \A i \in 1..(j - 1) : ~NamedAt(game, p, i))
             => /\ Len(game.game_states[2 * j + 1].zones[Hand(p)]) = MulliganDraw - (j - 1)
                /\ Len(LatestGamestate(game).zones[Hand(p)]) = MulliganDraw - (j - 1)
    /\ (\A p \in game.players : \E j \in 1..KeepSteps(game) : NamedAt(game, p, j))
          => LatestGamestate(game).game_stage.tag = "GameRunning"

\* The state the last atom of a batch was applied to.
BeforeLastAtom(g, atoms) ==
    IF Len(atoms) = 1 THEN LatestGamestate(g)
    ELSE ApplyAtom(LatestGamestate(g), g.rand, atoms[1]).state

\* C22: a DrawCards{p, count} atom for a player p, applied after an atom that
\* did not fail, does not fail, whatever the count: with m the smaller of
\* count and the size of p's library, the last m objects of the library are
\* appended to p's hand in their order, the library keeps its first objects,
\* and no other zone and no other field of the state changes.
C22_DrawMovesTop ==
    [][(last'.op = "apply_atoms"
          /\ LastBatch(game')[Len(LastBatch(game'))].tag = "DrawCards"
          /\ (Len(LastBatch(game')) = 2
                => ApplyAtom(LatestGamestate(game), game.rand, LastBatch(game')[1]).err = "none"))
        => \A atom \in {LastBatch(game')[Len(LastBatch(game'))]} :
             \A before \in {BeforeLastAtom(game, LastBatch(game'))} :
               \A after \in {LatestGamestate(game')} :
                 \A lib \in {before.zones[Library(atom.player)]} :
                   \A m \in {Min(atom.count, Len(lib))} :
                      /\ last'.res = "Ok"
                      /\ Len(game'.game_states) = Len(game.game_states) + 1
                      /\ after.zones[Hand(atom.player)]
                            = before.zones[Hand(atom.player)]
                                 \o SubSeq(lib, Len(lib) - m + 1, Len(lib))
                      /\ after.zones[Library(atom.player)] = SubSeq(lib, 1, Len(lib) - m)
                      /\ Len(after.zones[Library(atom.player)])
                            + Len(after.zones[Hand(atom.player)])
                            = Len(lib) + Len(before.zones[Hand(atom.player)])
                      /\ \A z \in DOMAIN before.zones \ {Hand(atom.player), Library(atom.player)} :
                            after.zones[z] = before.zones[z]
                      /\ [after EXCEPT !.zones = before.zones] = before]_vars

\* C22 happens: a draw of more cards than the library held was applied to a
\* player whose hand was not empty, and left the library empty.
C22_Witness ==
    /\ last.op = "apply_atoms"
    /\ last.res = "Ok"
    /\ Len(LastBatch(game)) = 2
    /\ LastBatch(game)[1].tag = "DrawCards"
    /\ LastBatch(game)[1].count = 1
    /\ LastBatch(game)[2] = [LastBatch(game)[1] EXCEPT !.count = MaxDraw]
    /\ LatestGamestate(game).zones[Library(LastBatch(game)[1].player)] = <<>>
    /\ Len(LatestGamestate(game).zones[Hand(LastBatch(game)[1].player)]) >= 2

(***************************************************************************)
(* The standalone server: create_game builds a game, spawns the task that  *)
(* loops over run and registers its abort handle; destroy_game removes the *)
(* handle and aborts the task.  The task is polled by the runtime: once    *)
(* scheduled (spawned, or woken by a response) a worker polls it, and the  *)
(* poll runs it to its next outside call, where it is suspended until the  *)
(* response arrives.  An abort drops a task that is suspended or scheduled *)
(* where it is; a task that a worker is polling runs on to the outside     *)
(* call it reaches next and is dropped there.                              *)
(***************************************************************************)
\* the id create_game gave the game, and an id no game was given
CreatedGame == 1
UnknownGame == 2

\* longest history the task of a game is driven to
MaxServerHistory == 4

\* The answers the outside gives during one step that starts in game g.
ServerAnswers(g) ==
    LET st == LatestGamestate(g)
    IN  IF st.game_stage.tag = "KeepHand"
        THEN {[NoAnswer EXCEPT !.fail = fail, !.keeping = keeping] :
                 fail \in {0}, keeping \in KeepAnswers(g)}
             \cup {[NoAnswer EXCEPT !.fail = 1]}
        ELSE IF st.unpassed_players = <<>> THEN {NoAnswer}
        ELSE UNION {{[NoAnswer EXCEPT !.fail = fail, !.action = action,
                                      !.targets = targets, !.pass = pass] :
                        fail \in 0..(Len(RequestsOf(g, action)) + 2),
                        targets \in [1..Len(RequestsOf(g, action)) -> TargetAnswers(g)],
                        pass \in BOOLEAN} :
                    action \in 0..(Len(st.zones[Hand(Head(st.unpassed_players))]) + 1)}

\* The step that starts in g and is given ans makes a k-th outside call.
ReachesCall(g, ans, k) ==
    /\ ans.fail = 0 \/ k <= ans.fail
    /\ \E o \in {Run(g, [ans EXCEPT !.fail = k])} :
          o.res = "RPCError" /\ Len(o.calls) = k

\* A variant of SuspendedAt in which apply_atoms itself can be suspended,
\* between recording a batch and pushing its state.
SuspendedAtMidBatch(g, ans, k) ==
    LET o == Run(g, [ans EXCEPT !.fail = k])
    IN  [o.game EXCEPT !.history = RecordBatch(o.game, <<ResetPriority>>)]

\* The game of a task suspended at the k-th outside call of the step that
\* started in g: what run has applied before that call.
SuspendedAt(g, ans, k) == Run(g, [ans EXCEPT !.fail = k]).game

\* create_game has been handled: the game is built over the player map, in
\* the order of its keys, the task is spawned and its handle registered.
InitServer ==
    \E players \in PlayerSets, deck \in DeckOptions :
        \E keys \in Perms(players) :
            /\ game = New(0, keys, [p \in players |-> deck], keys)
            /\ last = [op |-> "create_game", res |-> "Ok", branch |-> "none",
                       calls |-> <<>>, holder |-> NoPlayer, action |-> 0, pass |-> FALSE,
                       states |-> 0, detail |-> NoDetail, sent |-> NoSent, targets |-> <<>>, listed |-> <<>>]
            /\ twin = NoTwin
            /\ server = [NoServer EXCEPT !.games = {CreatedGame}, !.task = "scheduled"]

ServerRecord(op, res) ==
    [op |-> op, res |-> res, branch |-> "none", calls |-> <<>>, holder |-> NoPlayer,
     action |-> 0, pass |-> FALSE, states |-> Len(game.game_states), detail |-> NoDetail, sent |-> NoSent, targets |-> <<>>, listed |-> <<>>]

\* The task where a poll leaves it at an outside call: suspended, or dropped
\* when an abort was requested while it was polled.
AtCall(base, ans, k) ==
    [server EXCEPT !.task = IF server.abort THEN "cancelled" ELSE "suspended",
                   !.base = base, !.ans = ans, !.at = k]

\* A poll inside a step: from the response to call server.at to the next
\* outside call, or to the end of the step.
PollInStep ==
    /\ server.task = "polled"
    /\ server.at > 0
    /\ IF ReachesCall(server.base, server.ans, server.at + 1)
       THEN /\ game' = SuspendedAt(server.base, server.ans, server.at + 1)
            /\ server' = AtCall(server.base, server.ans, server.at + 1)
            /\ last' = ServerRecord("poll", "Pending")
       ELSE \E o \in {Run(server.base, server.ans)} :
               /\ game' = o.game
               /\ server' = [server EXCEPT !.task = IF o.res = "Ok" THEN "polled" ELSE "ended",
                                           !.base = <<>>, !.ans = NoAnswer, !.at = 0,
                                           !.result = o.res]
               /\ last' = ServerRecord("poll", o.res)
    /\ UNCHANGED twin

\* A poll at the top of the loop: run is called and goes to its first
\* outside call, or to its end when it makes none.
PollLoop ==
    /\ server.task = "polled"
    /\ server.at = 0
    /\ Len(game.history) < MaxServerHistory
    /\ \E ans \in ServerAnswers(game) :
          IF ReachesCall(game, ans, 1)
          THEN /\ game' = SuspendedAt(game, ans, 1)
               /\ server' = AtCall(game, ans, 1)
               /\ last' = ServerRecord("poll", "Pending")
          ELSE \E o \in {Run(game, ans)} :
                  /\ game' = o.game
                  /\ server' = [server EXCEPT !.task = IF o.res = "Ok" THEN "polled"
                                                        ELSE "ended",
                                              !.result = o.res]
                  /\ last' = ServerRecord("poll", o.res)
    /\ UNCHANGED twin

\* The response to the outside call the task is suspended at arrives and
\* wakes the task.
Respond ==
    /\ server.task = "suspended"
    /\ server' = [server EXCEPT !.task = "scheduled"]
    /\ last' = ServerRecord("respond", "Ok")
    /\ UNCHANGED <<game, twin>>

\* A worker of the runtime takes the scheduled task and starts to poll it.
StartPoll ==
    /\ server.task = "scheduled"
    /\ server' = [server EXCEPT !.task = "polled"]
    /\ last' = ServerRecord("start_poll", "Ok")
    /\ UNCHANGED <<game, twin>>

\* destroy_game(id): a registered handle is removed and the task aborted.
DestroyGame ==
    \E id \in {CreatedGame, UnknownGame} :
        /\ IF id \in server.games
           THEN server' = [server EXCEPT !.games = @ \ {id},
                                         !.abort = (server.task = "polled"),
                                         !.task = IF @ \in {"suspended", "scheduled"}
                                                  THEN "cancelled" ELSE @,
                                         !.request = id]
           ELSE server' = [server EXCEPT !.request = id]
        /\ last' = ServerRecord("destroy_game", "Ok")
        /\ UNCHANGED <<game, twin>>

NextServer == StartPoll \/ PollLoop \/ PollInStep \/ Respond \/ DestroyGame

SpecServer == InitServer /\ [][NextServer]_vars

\* The game that applying the batches of a history from the i-th on, by
\* apply_atoms, makes of g; ok tells whether every batch applied.
RECURSIVE ReplayGame(_, _, _)
ReplayGame(g, history, i) ==
    IF i > Len(history) THEN [ok |-> TRUE, game |-> g]
    ELSE LET a == ApplyAtoms(g, history[i][2])
         IN  IF a.res # "Ok" THEN [ok |-> FALSE, game |-> a.game]
             ELSE ReplayGame(a.game, history, i + 1)

\* C23: the game of a task that is suspended at an outside call, or was
\* cancelled there, holds whole batches only: every batch of the history has
\* its successor state, recorded as applied to the state before it, and
\* game_states is exactly what applying the batches one after the other to
\* game_states[0] gives.
C23_CancelKeepsBatchesWhole ==
    server.task \in {"suspended", "cancelled"}
        => /\ Len(game.game_states) = Len(game.history) + 1
           /\ \A i \in 1..Len(game.history) : game.history[i][1] = i - 1
           /\ \A r \in {ReplayGame([game EXCEPT !.game_states = <<game.game_states[1]>>,
                                                 !.history = <<>>,
                                                 !.rand = game.rand0],
                                    game.history, 1)} :
                 /\ r.ok
                 /\ r.game.game_states = game.game_states
                 /\ r.game.history = game.history

\* C23 happens: the task was cancelled at an outside call of a step that had
\* applied a batch before the call, in a game that had completed a step.
C23_Witness ==
    /\ server.task = "cancelled"
    /\ server.at >= 1
    /\ server.base.history # <<>>
    /\ Len(game.history) > Len(server.base.history)

\* C24: the task calls run again after a step that returned Ok and has ended
\* for good after a step that returned an error; a handled destroy_game(id)
\* leaves id out of the registry; once the game's id is out of the registry
\* its task applies no further batch; and destroy_game for an id that is not
\* registered changes neither the registry nor the task nor the game.
C24_TaskLoopAndDestroy ==
    [][/\ (last'.op = "poll" /\ last'.res = "Ok")
            => (server'.task = "polled" /\ server'.at = 0)
       /\ (last'.op = "poll" /\ last'.res \notin {"Ok", "Pending"})
            => server'.task = "ended"
       /\ server.task = "ended" => (server'.task = "ended" /\ game' = game)
       /\ last'.op = "destroy_game" => server'.request \notin server'.games
       /\ CreatedGame \notin server.games
            => (game'.history = game.history /\ game'.game_states = game.game_states)
       /\ (last'.op = "destroy_game" /\ server'.request \notin server.games)
            => (game' = game /\ server' = [server EXCEPT !.request = server'.request])]_vars

\* C25: every state pushed by a step, in keep-hand or in game-running, has
\* the active_player_order of the state the constructor built, which is the
\* order the constructor was given.
C25_OrderNeverChanges ==
    \A i \in NewStates :
        game.game_states[i].active_player_order = game.game_states[1].active_player_order

\* C25 happens: two players in an order that is not the map's, and a stack
\* object has resolved and priority was reset.
C25_Witness ==
    /\ last.op = "run"
    /\ last.branch = "resolve"
    /\ last.res = "Ok"
    /\ Len(LatestGamestate(game).active_player_order) = 2
    /\ LatestGamestate(game).active_player_order # game.keys
    /\ LastBatch(game)[Len(LastBatch(game))].tag = "ResetPriority"

\* C26: a game as the constructor leaves it, whatever seed, player map, decks
\* and order it was given, has one state and no history; the state is in
\* keep-hand with nobody keeping, active_player_order and unpassed_players
\* are the order given, the library of each player holds one object per card
\* of the deck, in deck order, with no controller, no choices and the card as
\* underlying card, and every other zone is empty.
C26_ConstructedGame ==
    last.op = "new"
        => \A seed \in Seeds, players \in PlayerSets, deck \in DeckOptions :
             \A keys \in Perms(players), order \in Perms(players) :
                game = New(seed, keys, [p \in players |-> deck], order)
                => \A st \in {game.game_states[1]} :
                     /\ Len(game.game_states) = 1
                     /\ game.history = <<>>
                     /\ st.game_stage.tag = "KeepHand"
                     /\ st.game_stage.players_keeping = {}
                     /\ st.active_player_order = order
                     /\ st.unpassed_players = order
                     /\ \A p \in players :
                           /\ Len(st.zones[Library(p)]) = Len(deck)
                           /\ \A k \in 1..Len(deck) :
                                 /\ st.zones[Library(p)][k].controller = NoPlayer
                                 /\ st.zones[Library(p)][k].choices = <<>>
                                 /\ st.zones[Library(p)][k].underlying_card = deck[k]
                           /\ st.zones[Hand(p)] = <<>>
                           /\ st.zones[Discard(p)] = <<>>
                     /\ st.zones[Battlefield] = <<>>
                     /\ st.zones[Stack] = <<>>

\* C26 happens: a game of two players was constructed with an order that is
\* not the iteration order of the player map, over decks of three cards.
C26_Witness ==
    /\ last.op = "new"
    /\ Len(game.keys) = 2
    /\ game.game_states[1].active_player_order # game.keys
    /\ \A p \in game.players : Len(game.game_states[1].zones[Library(p)]) = 3

\* C27: a run step that starts in game-running with every player passed and
\* the stack empty completes: it returns Ok after committing a batch, or it
\* returns an error; it does not abort the game loop.
C27_EmptyStackAdvances ==
    [][(last'.op = "run"
          /\ LatestGamestate(game).game_stage.tag = "GameRunning"
          /\ LatestGamestate(game).unpassed_players = <<>>
          /\ LatestGamestate(game).zones[Stack] = <<>>)
        => /\ last'.res # "panic"
           /\ last'.res = "Ok" => Len(game'.game_states) > Len(game.game_states)]_vars

\* C28: a PassPriority{player} atom, applied after an atom that did not fail,
\* succeeds exactly when player is the first of unpassed_players, and then
\* the new state is the old one with that first element removed and the rest
\* in order; otherwise the call returns InvalidPlayerPassing and game_states
\* is as it was.
C28_PassPriorityHead ==
    [][(last'.op = "apply_atoms"
          /\ LastBatch(game')[Len(LastBatch(game'))].tag = "PassPriority"
          /\ (Len(LastBatch(game')) = 2
                => ApplyAtom(LatestGamestate(game), game.rand, LastBatch(game')[1]).err = "none"))
        => \A atom \in {LastBatch(game')[Len(LastBatch(game'))]} :
             \A before \in {BeforeLastAtom(game, LastBatch(game'))} :
                IF before.unpassed_players # <<>> /\ before.unpassed_players[1] = atom.player
                THEN /\ last'.res = "Ok"
                     /\ Len(game'.game_states) = Len(game.game_states) + 1
                     /\ LatestGamestate(game')
                           = [before EXCEPT !.unpassed_players = Tail(before.unpassed_players)]
                ELSE /\ last'.res = "InvalidPlayerPassing"
                     /\ game'.game_states = game.game_states]_vars

\* C28 happens: with two players unpassed the first of them passed, and the
\* second is left.
C28_Witness ==
    /\ last.op = "apply_atoms"
    /\ last.res = "Ok"
    /\ Len(LastBatch(game)) = 1
    /\ LastBatch(game)[1].tag = "PassPriority"
    /\ Len(LatestGamestate(game).unpassed_players) = 1

(***************************************************************************)
(* A game driven by run and, between steps, given StartGame and KeepHand   *)
(* atoms directly through apply_atoms.                                     *)
(***************************************************************************)
\* longest history such a game is driven to
MaxStageHistory == 5

\* run, with any answers of the outside; not called again after a step that
\* returned an error.
StageRun ==
    /\ last.op = "run" => last.res = "Ok"
    /\ last.res # "panic"
    /\ Len(game.history) < MaxStageHistory
    /\ \E ans \in ServerAnswers(game) : Commit(ans)

\* apply_atoms with one stage atom.
StageAtom ==
    /\ last.op = "run" => last.res = "Ok"
    /\ last.res # "panic"
    /\ Len(game.history) < MaxStageHistory
    /\ \E atom \in {StartGame} \cup {KeepHand(p) : p \in game.players} :
          \E a \in {ApplyAtoms(game, <<atom>>)} :
              /\ game' = a.game
              /\ last' = [op |-> "apply_atoms", res |-> a.res, branch |-> "none",
                          calls |-> <<>>, holder |-> NoPlayer, action |-> 0,
                          pass |-> FALSE, states |-> Len(game.game_states),
                          detail |-> NoDetail, sent |-> NoSent, targets |-> <<>>, listed |-> <<>>]
              /\ UNCHANGED <<twin, server>>

NextStage == StageRun \/ StageAtom

SpecStage == Init /\ [][NextStage]_vars

\* C29: a state pushed after a game-running state is game-running; StartGame
\* applied to a running game returns GameAlreadyRunning and KeepHand returns
\* KeepHandDuringGame, and neither pushes a state; and a run step that starts
\* in game-running records neither atom.
C29_StageForward ==
    [][/\ \A i \in Len(game.game_states)..(Len(game'.game_states) - 1) :
             game'.game_states[i].game_stage.tag = "GameRunning"
                => game'.game_states[i + 1].game_stage.tag = "GameRunning"
       /\ (last'.op = "apply_atoms"
              /\ LatestGamestate(game).game_stage.tag = "GameRunning")
            => /\ game'.game_states = game.game_states
               /\ LastBatch(game')[1].tag = "StartGame" => last'.res = "GameAlreadyRunning"
               /\ LastBatch(game')[1].tag = "KeepHand" => last'.res = "KeepHandDuringGame"
       /\ (last'.op = "run"
              /\ LatestGamestate(game).game_stage.tag = "GameRunning")
            => \A atoms \in {NewAtoms(game, game')} :
                  \A k \in 1..Len(atoms) : atoms[k].tag \notin {"StartGame", "KeepHand"}]_vars

\* C29 happens: KeepHand was refused in a game that run had started and in
\* which a card had been played since.
C29_Witness ==
    /\ last.op = "apply_atoms"
    /\ last.res = "KeepHandDuringGame"
    /\ LatestGamestate(game).game_stage.tag = "GameRunning"
    /\ LatestGamestate(game).zones[Stack] # <<>>

\* C30: a run step that starts in game-running with some player unpassed
\* sends get_next_player_action_from to the first unpassed player, with
\* PassPriority at index 0 followed by one PlayCard from that player's hand
\* per object of the hand, in hand order, and nothing else.
C30_ActionsOffered ==
    [][(last'.op = "run"
          /\ LatestGamestate(game).game_stage.tag = "GameRunning"
          /\ LatestGamestate(game).unpassed_players # <<>>)
        => \A p \in {LatestGamestate(game).unpassed_players[1]} :
             \A hand \in {LatestGamestate(game).zones[Hand(p)]} :
                /\ last'.calls # <<>>
                /\ last'.calls[1] = ActionCall
                /\ last'.sent.player = p
                /\ Len(last'.sent.actions) = Len(hand) + 1
                /\ last'.sent.actions[1] = [tag |-> "PassPriority"]
                /\ \A k \in 1..Len(hand) :
                      last'.sent.actions[k + 1]
                         = [tag |-> "PlayCard", from |-> Hand(p), object |-> hand[k].id]]_vars

\* C30 happens: the second of two players was asked, holding at least two
\* objects, while the first held objects too.
C30_Witness ==
    /\ last.op = "run"
    /\ Len(last.sent.actions) >= 3
    /\ Len(LatestGamestate(game).active_player_order) = 2
    /\ last.sent.player = LatestGamestate(game).active_player_order[2]
    /\ LatestGamestate(game).zones[Hand(LatestGamestate(game).active_player_order[1])] # <<>>

\* C31: in a card-play step, an answer to a single-target request that holds
\* exactly one index i into the candidates is recorded, in the PlayerPlayCard
\* atom the step applies and on the stack object when the step returns Ok, as
\* candidates[i] under the request's (handler index, name); an answer that
\* does not hold exactly one index makes the step return
\* InvalidChoiceAmount{expected: 1, received: its length} and leaves the game
\* as it was.
C31_SingleTargetChoice ==
    [][(last'.op = "run" /\ last'.branch = "play" /\ last'.targets # <<>>)
        => \A reqs \in {RequestsOf(game, last'.action)} :
             \A cands \in {PossibleChoices(game)} :
               \A k \in 1..Len(last'.targets) :
                 \A t \in {last'.targets[k]} :
                    IF Len(t) # 1
                    THEN /\ last'.res = "InvalidChoiceAmount"
                         /\ last'.detail = [error |-> "InvalidChoiceAmount",
                                            expected |-> 1, received |-> Len(t)]
                         /\ game' = game
                    ELSE (t[1] < Len(cands) /\ Len(game'.history) > Len(game.history))
                         => /\ LastBatch(game')[1].tag = "PlayerPlayCard"
                            /\ LastBatch(game')[1].choices[reqs[k]] = cands[t[1] + 1]
                            /\ last'.res = "Ok"
                                 => \A stack \in {LatestGamestate(game').zones[Stack]} :
                                       stack[Len(stack)].choices[reqs[k]] = cands[t[1] + 1]]_vars

\* C31 happens: with two candidates the second was chosen and the card is on
\* the stack.
C31_Witness ==
    /\ last.op = "run"
    /\ last.branch = "play"
    /\ last.res = "Ok"
    /\ last.targets = <<(<<1>>)>>
    /\ Len(game.keys) = 2
    /\ LatestGamestate(game).zones[Stack] # <<>>

\* C32: a card-play step whose answer to a target request holds one index
\* that is outside the candidates returns an error, not Ok and not a crash
\* of the task, applies no batch and leaves the game as it was.
C32_OutOfRangeTargetRefused ==
    [][(last'.op = "run" /\ last'.branch = "play" /\ last'.targets # <<>>
          /\ Len(last'.targets[Len(last'.targets)]) = 1
          /\ last'.targets[Len(last'.targets)][1] >= Len(PossibleChoices(game)))
        => /\ last'.res \notin {"Ok", "panic"}
           /\ game' = game]_vars

(***************************************************************************)
(* Games over decks that hold a card with two targeted handlers: the       *)
(* players keep their first hand, then play, pass and resolve.             *)
(***************************************************************************)
VolleyDeck == <<"volley", "blast">>

\* longest history a game over volley decks is driven to
MaxVolleyHistory == 8

InitVolley ==
    \E players \in PlayerSets :
        \E keys \in Perms(players), order \in Perms(players) :
            /\ game = New(0, keys, [p \in players |-> VolleyDeck], order)
            /\ last = [op |-> "new", res |-> "Ok", branch |-> "none", calls |-> <<>>,
                       holder |-> NoPlayer, action |-> 0, pass |-> FALSE, states |-> 0,
                       detail |-> NoDetail, sent |-> NoSent, targets |-> <<>>, listed |-> <<>>]
            /\ twin = NoTwin
            /\ server = NoServer

CanStepVolley == last.res = "Ok" /\ Len(game.history) < MaxVolleyHistory

VolleyKeepHand ==
    /\ CanStepVolley
    /\ LatestGamestate(game).game_stage.tag = "KeepHand"
    /\ Commit([NoAnswer EXCEPT !.keeping = NotKeeping(game, LatestGamestate(game))])

\* The player holding priority passes or plays a card of the hand, passing
\* or not; every target request is answered with one candidate.
VolleyPriority ==
    /\ CanStepVolley
    /\ LatestGamestate(game).game_stage.tag = "GameRunning"
    /\ LatestGamestate(game).unpassed_players # <<>>
    /\ \E action \in 0..Len(LatestGamestate(game).zones[
                              Hand(Head(LatestGamestate(game).unpassed_players))]),
          pass \in BOOLEAN :
             /\ action = 0 => ~pass
             /\ \E targets \in [1..Len(RequestsOf(game, action)) ->
                                   {<<i>> : i \in 0..(Len(game.keys) - 1)}],
                   fail \in 0..(Len(RequestsOf(game, action)) + 2) :
                    /\ (fail # 0 /\ fail < Len(RequestsOf(game, action)) + 2)
                          => (~pass /\ \A k \in DOMAIN targets : targets[k] = <<0>>)
                    /\ Commit([NoAnswer EXCEPT !.fail = fail, !.action = action,
                                               !.targets = targets, !.pass = pass])

VolleyResolve ==
    /\ CanStepVolley
    /\ LatestGamestate(game).game_stage.tag = "GameRunning"
    /\ LatestGamestate(game).unpassed_players = <<>>
    /\ Commit(NoAnswer)

NextVolley == VolleyKeepHand \/ VolleyResolve \/ VolleyPriority

SpecVolley == InitVolley /\ [][NextVolley]_vars

\* The PlayerPlayCard atoms of a history that played the object.
PlayedWith(history, object) ==
    {a \in UNION {Range(history[b][2]) : b \in 1..Len(history)} :
        a.tag = "PlayerPlayCard" /\ a.object = object}

\* C33: a resolve step that emits atoms emits, for the handler with index i
\* of the resolved object's card, a DealDamage atom whose target is the
\* entry recorded under (i, "target") by the atom that played the object,
\* with the handler's amount and the object as source.
C33_ChoicesReachHandler ==
    [][(last'.op = "run" /\ last'.branch = "resolve"
          /\ Len(game'.history) > Len(game.history))
        => \A stack \in {LatestGamestate(game).zones[Stack]} :
             \A top_item \in {stack[Len(stack)]} :
               \A handlers \in {Cards[top_item.underlying_card]} :
                 \A played \in PlayedWith(game.history, top_item.id) :
                   \A i \in 1..Len(handlers) :
                      handlers[i].tag = "DealDamage"
                        => LastBatch(game')[i]
                              = [tag |-> "DealDamage", amount |-> handlers[i].n,
                                 source |-> top_item.id,
                                 target |-> played.choices[<<i - 1, "target">>]]]_vars

\* C33 happens: a card with two targeted handlers, played with a different
\* target for each, was resolved.
C33_Witness ==
    /\ last.op = "run"
    /\ last.branch = "resolve"
    /\ Len(LastBatch(game)) = 4
    /\ LastBatch(game)[1].tag = "DealDamage"
    /\ LastBatch(game)[2].tag = "DealDamage"
    /\ LastBatch(game)[1].target # LastBatch(game)[2].target

\* The outside calls of a card-play step that asks n target questions.
PlayCalls(n) == <<ActionCall>> \o [k \in 1..n |-> TargetCall] \o <<PassingCall>>

C35_StackLifo ==
    [][\A before \in {LatestGamestate(game).zones[Stack]} :
         \A after \in {LatestGamestate(game').zones[Stack]} :
            /\ (last'.op = "run" /\ last'.branch = "resolve"
                   /\ Len(game'.history) > Len(game.history))
                  => \A top_item \in {before[Len(before)]} :
                       \A handlers \in {Cards[top_item.underlying_card]} :
                          /\ [k \in DOMAIN LastBatch(game') |-> LastBatch(game')[k].tag]
                                = [k \in DOMAIN handlers |-> handlers[k].tag]
                                    \o <<"PopStack", "ResetPriority">>
                          /\ \A k \in DOMAIN handlers :
                                handlers[k].tag = "DealDamage"
                                   => LastBatch(game')[k].source = top_item.id
            /\ IF last'.op = "run" /\ last'.branch = "resolve"
                  /\ Len(game'.game_states) > Len(game.game_states)
               THEN after = SubSeq(before, 1, Len(before) - 1)
               ELSE /\ Len(after) >= Len(before)
                    /\ SubSeq(after, 1, Len(before)) = before]_vars

\* C35 happens: a resolve step completed and left an older object on the
\* stack.
C35_Witness ==
    /\ last.op = "run"
    /\ last.branch = "resolve"
    /\ last.res = "Ok"
    /\ LatestGamestate(game).zones[Stack] # <<>>

\* C36: a keep-hand step emits no ShuffleHandIntoLibrary or DrawCards atom
\* for a player who was keeping when it started, does not list that player
\* in its request to get_player_keeping, and leaves that player's hand and
\* library as they were.
C36_KeepingPlayersUntouched ==
    [][(last'.op = "run" /\ last'.branch = "keep")
        => \A before \in {LatestGamestate(game)} :
             \A after \in {LatestGamestate(game')} :
               \A atoms \in {NewAtoms(game, game')} :
                 \A p \in before.game_stage.players_keeping \cap game.players :
                    /\ \A k \in 1..Len(atoms) :
                          atoms[k].tag \in {"ShuffleHandIntoLibrary", "DrawCards"}
                            => atoms[k].player # p
                    /\ p \notin Range(last'.listed)
                    /\ after.zones[Hand(p)] = before.zones[Hand(p)]
                    /\ after.zones[Library(p)] = before.zones[Library(p)]]_vars

\* C36 happens: a keep-hand step started with one player keeping, asked the
\* other one and drew a new hand for that one.
C36_Witness ==
    /\ last.op = "run"
    /\ last.branch = "keep"
    /\ Len(last.listed) = 1
    /\ Cardinality(game.players) = 2
    /\ Len(game.game_states) >= 2
    /\ \E p \in game.players :
          /\ p \notin Range(last.listed)
          /\ p \in game.game_states[last.states].game_stage.players_keeping
    /\ LatestGamestate(game).zones[Hand(last.listed[1])]
          # game.game_states[last.states].zones[Hand(last.listed[1])]

\* C37: whatever the outside answers, a game whose libraries started with
\* seven cards is running once eight keep-hand steps have returned Ok.
C37_KeepHandStageEnds ==
    (last.res = "Ok" /\ KeepSteps(game) >= MulliganDraw + 1)
       => LatestGamestate(game).game_stage.tag = "GameRunning"

\* C38: no step raises the number of objects in the zones, a step that is
\* no resolve step leaves it unchanged, and a resolve step lowers it by one
\* and leaves the object it resolved in no zone.
C38_ObjectsNeverCreated ==
    [][\A before \in {LatestGamestate(game)} :
         \A after \in {LatestGamestate(game')} :
            IF last'.op = "run" /\ last'.branch = "resolve"
            THEN /\ Len(AllObjects(after)) = Len(AllObjects(before)) - 1
                 /\ \A k \in 1..Len(AllObjects(after)) :
                       AllObjects(after)[k].id
                          # before.zones[Stack][Len(before.zones[Stack])].id
            ELSE Len(AllObjects(after)) = Len(AllObjects(before))]_vars

\* C39: a step whose batches hold no ShuffleHandIntoLibrary atom leaves the
\* generator as it was; a ShuffleHandIntoLibrary{p} atom applied last in a
\* batch leaves Hand(p) empty and Library(p) holding exactly the objects of
\* the library and the hand it met, and changes nothing else of the state.
C39_RandOnlyInShuffle ==
    [][/\ \A atoms \in {NewAtoms(game, game')} :
            (\A k \in 1..Len(atoms) : atoms[k].tag # "ShuffleHandIntoLibrary")
               => game'.rand = game.rand
       /\ (last'.op = "apply_atoms"
             /\ LastBatch(game')[Len(LastBatch(game'))].tag = "ShuffleHandIntoLibrary"
             /\ (Len(LastBatch(game')) = 2
                   => ApplyAtom(LatestGamestate(game), game.rand, LastBatch(game')[1]).err = "none"))
           => \A p \in {LastBatch(game')[Len(LastBatch(game'))].player} :
                \A before \in {BeforeLastAtom(game, LastBatch(game'))} :
                  \A after \in {LatestGamestate(game')} :
                     /\ last'.res = "Ok"
                     /\ after.zones[Hand(p)] = <<>>
                     /\ Len(after.zones[Library(p)])
                           = Len(before.zones[Library(p)]) + Len(before.zones[Hand(p)])
                     /\ Range(after.zones[Library(p)])
                           = Range(before.zones[Library(p)]) \cup Range(before.zones[Hand(p)])
                     /\ \A z \in DOMAIN before.zones \ {Hand(p), Library(p)} :
                           after.zones[z] = before.zones[z]
                     /\ [after EXCEPT !.zones = before.zones] = before]_vars

\* C39 happens: one call drew for a player and shuffled that hand back, and
\* the generator moved.
C39_Witness ==
    /\ last.op = "apply_atoms"
    /\ last.res = "Ok"
    /\ Len(game.history) = 1
    /\ Len(LastBatch(game)) = 2
    /\ LastBatch(game)[1].tag = "DrawCards"
    /\ LastBatch(game)[1].count = 1
    /\ LastBatch(game)[2] = ShuffleHandIntoLibrary(LastBatch(game)[1].player)
    /\ Len(game.game_states[1].zones[Library(LastBatch(game)[1].player)]) >= 2
    /\ game.rand # game.rand0

\* C40: every step leaves the states and the history entries it met in
\* place and adds new ones at the end; the j-th entry a step adds carries the
\* index of the state its batch was applied to, the latest one at that
\* point; an apply_atoms call that returns Ok adds exactly one entry and one
\* state, the state its batch leads to from the state the entry names.
C40_LogsAppendOnly ==
    [][\A old_states \in {Len(game.game_states)} :
         \A old_entries \in {Len(game.history)} :
            /\ Len(game'.game_states) >= old_states
            /\ SubSeq(game'.game_states, 1, old_states) = game.game_states
            /\ Len(game'.history) >= old_entries
            /\ SubSeq(game'.history, 1, old_entries) = game.history
            /\ \A j \in 1..(Len(game'.history) - old_entries) :
                  /\ game'.history[old_entries + j][1] = old_states - 1 + (j - 1)
                  /\ game'.history[old_entries + j][1] < Len(game'.game_states)
            /\ Len(game'.game_states) - old_states
                  \in {Len(game'.history) - old_entries,
                       Len(game'.history) - old_entries - 1}
            /\ (last'.op = "apply_atoms" /\ last'.res = "Ok")
                  => /\ Len(game'.game_states) = old_states + 1
                     /\ Len(game'.history) = old_entries + 1
                     /\ game'.game_states[old_states + 1]
                           = FoldAtoms(game'.game_states[game'.history[old_entries + 1][1] + 1],
                                       game.rand, LastBatch(game')).state]_vars

\* C40 happens: an apply_atoms call returned Ok on a game whose logs already
\* held the batches of a keep-hand step.
C40_Witness ==
    /\ last.op = "apply_atoms"
    /\ last.res = "Ok"
    /\ Len(game.history) >= 3
    /\ LastBatch(game) = <<StartGame>>
    /\ \E j \in 1..(Len(game.history) - 1) :
          \E i \in 1..Len(game.history[j][2]) :
             game.history[j][2][i].tag = "DrawCards"
====
